---------------------------- MODULE Spec2Model ----------------------------
(***************************************************************************)
(* Notebooks of ml-physics-notebooks as state machines.                    *)
(*                                                                         *)
(*   src/habitable_planets/habitable_planets.ipynb  (two notebooks in one  *)
(*        file: the exoplanet catalog cleaning and the ParticleID SVM)     *)
(*   src/boosting_decisions/boosting_decisions.ipynb                       *)
(*   src/regularization/regularization.ipynb                               *)
(*                                                                         *)
(* A notebook is a list of cells run top to bottom; each cell is one       *)
(* action, and pc names the next cell to run.  A data frame is a sequence  *)
(* of rows; each row is a record holding its pandas index label (index),   *)
(* its columns, and src, the row of the input file it was read from.       *)
(***************************************************************************)
EXTENDS Integers, Sequences, FiniteSets, TLC

VARIABLES
    notebook,        \* which notebook of habitable_planets.ipynb is run
    pc,              \* the next cell of that notebook
    catalog,         \* content of ../data/phl_exoplanet_catalog.csv
    df,              \* pd.read_csv(catalog)
    bindf,           \* df with the binary habitability tag
    final_features,  \* the three selected feature columns
    targets,         \* the label Series
    features_file,   \* content of ../data/ParticleID_features.csv
    labels_file,     \* content of ../data/ParticleID_labels.txt
    features,        \* pd.read_csv(features_file)
    y,               \* rand_target: strings, then label codes
    le,              \* the LabelEncoder (its classes_)
    target,          \* np.abs(y - 1)
    features_lim     \* the limited feature table

\* regularization.ipynb
VARIABLES
    reg_pc,          \* the next cell
    xb,              \* np.vstack((x1,x2,x3)).T
    poly,            \* the PolynomialFeatures transformer
    new_xb,          \* poly.fit_transform(xb)
    reg_model,       \* model: the Ridge model last fitted
    coef_alpha_1000, \* coefficients and intercept, Ridge alpha = 1000
    coef_alpha_1,    \* ... Ridge alpha = 1
    coef_no_reg,     \* ... Ridge alpha = 1e-7
    coef_L1000,      \* ... Lasso alpha = 1000
    coef_L1,         \* ... Lasso alpha = 1
    figure,          \* the bar containers and ticks of the current figure
    reg_raised       \* the exception that stopped the notebook, or "none"

\* cross_val_predict(model, X, y, cv = KFold(n_splits=5, shuffle=True, ...))
\* and cross_val_predict(bmodel, features_lim, target, cv = StratifiedKFold(...))
VARIABLES
    cv_pc,           \* position inside cross_val_predict
    splitter,        \* "KFold" or "StratifiedKFold"
    n_samples,       \* rows of X
    y_cv,            \* the class of each row (StratifiedKFold)
    shuffled,        \* KFold: np.arange(n_samples) as shuffled by the rng
    rotations,       \* StratifiedKFold: the rng's shuffle of each class's folds
    splits,          \* list(cv.split(X, y)): the (train, test) index arrays
    predictions,     \* the blocks returned by _fit_and_predict, fold by fold
    ypred,           \* the array cross_val_predict returns
    cv_raised        \* the exception raised, or "none"

\* boosting_decisions.ipynb: the staged diagnostics
VARIABLES
    run,             \* the diagnostic being run: its place in Diagnostics
    phase,           \* what comes next in it: "model", "fit", "plot"; "end"
    n_estimators,    \* the notebook's variable n_estimators (0: not yet set)
    boost_model,     \* model: the ensemble and its fitted estimators_
    curves,          \* the lines drawn by the last diagnostic
    boost_raised     \* the exception that stopped the notebook, or "none"

\* a notebook executed twice from top to bottom
VARIABLES
    rr_notebook,     \* the notebook being executed
    execution,       \* 1 or 2: the execution in progress (0: none)
    rr_cell,         \* the next cell of RandomCells to evaluate
    global_rng,      \* the state of numpy's global RandomState
    rr_out,          \* the outputs of the cells evaluated in this execution
    first_out        \* the outputs of the first execution, once complete

\* the ParticleID notebook's calls into joblib
VARIABLES
    cpu_count,       \* the processors of the machine
    jobs_call,       \* the call of Calls being evaluated, or next to be
    jobs_phase,      \* "cell": between calls; "call": inside one
    pending,         \* the tasks of the call not yet started
    in_process,      \* the tasks running in the notebook's own process
    in_workers       \* the tasks running in worker processes

\* regularization.ipynb: the cells choosing alpha by cross-validation
VARIABLES
    tune_pc,         \* the next step of the two cells
    cv_error,        \* the data: the error level of each alpha (as exponent)
    MSE,             \* MSE, the list of the manual Ridge loop
    tune_i,          \* position of the running for loop in its sequence
    ridge_runs,      \* the times the manual Ridge cell was executed
    lasso_cv,        \* model, the fitted LassoCV
    printed          \* the lines printed by the cell being evaluated

\* boosting_decisions.ipynb: the toy models and their printed R2 scores
VARIABLES
    toy_cell,        \* the toy cell evaluated: "AdaBoost" or "GBR"
    toy_pc,          \* the next step of the cell
    toy_y,           \* y, the training targets
    toy_stages,      \* [y_1, y_2, y_3, y_4, y_10]: the predictions of the stages
    toy_i,           \* position of the print loop in its list
    toy_printed      \* the scores printed so far

\* habitable_planets.ipynb, second notebook: the new features counting particles
VARIABLES
    count_pc,        \* the next cell
    event_file,      \* the Type_1..Type_13 fields of ParticleID_features.csv
    types,           \* the columns Type_1..Type_13 of features, row by row
    ntot,            \* ntot
    nbtot,           \* nbtot
    njtot,           \* njtot
    ngtot,           \* ngtot
    n_lepton_tot,    \* n_lepton_tot
    new_columns      \* the columns Total_... added to features

\* habitable_planets.ipynb, second notebook: the random classifier
VARIABLES
    rand_pc,         \* the next statement of the cell
    rand_target,          \* target, the 0/1 rand_target
    trial,           \* the loop variable i
    x_drawn,         \* x, the rand_target drawn in the iteration
    acc,             \* acc, in units of 1/size
    accuracies,          \* the numerators of the accuracies added so far
    rand_printed,    \* the numerical solution printed
    rand_raised      \* the exception that stopped the cell

\* a notebook run from its first cell to its last
VARIABLES
    sc_notebook,     \* the notebook
    sc_cell,         \* the position of the running cell in the notebook
    sc_iter,         \* the iterations of its loop that are finished
    sc_step,         \* the position of the next statement in the loop body
    sc_bound,        \* the length of the sequence the loop iterates over
    sc_log,          \* the statements executed so far
    sc_raised        \* the exception that stopped the run

planetsVars == <<catalog, df, bindf, final_features, targets>>
particleVars == <<features_file, labels_file, features, y, le, target, features_lim>>
habVars == <<notebook, pc, planetsVars, particleVars>>

regVars == <<reg_pc, xb, poly, new_xb, reg_model, coef_alpha_1000, coef_alpha_1,
             coef_no_reg, coef_L1000, coef_L1, figure, reg_raised>>

cvVars == <<cv_pc, splitter, n_samples, y_cv, shuffled, rotations, splits,
            predictions, ypred, cv_raised>>

boostVars == <<run, phase, n_estimators, boost_model, curves, boost_raised>>

rerunVars == <<rr_notebook, execution, rr_cell, global_rng, rr_out, first_out>>

jobsVars == <<cpu_count, jobs_call, jobs_phase, pending, in_process, in_workers>>

tuneVars == <<tune_pc, cv_error, MSE, tune_i, ridge_runs, lasso_cv, printed>>

toyVars == <<toy_cell, toy_pc, toy_y, toy_stages, toy_i, toy_printed>>

countVars == <<count_pc, event_file, types, ntot, nbtot, njtot, ngtot, n_lepton_tot, new_columns>>

randVars == <<rand_pc, rand_target, trial, x_drawn, acc, accuracies, rand_printed, rand_raised>>

scriptVars == <<sc_notebook, sc_cell, sc_iter, sc_step, sc_bound, sc_log, sc_raised>>

\* the variables of the parts further down
extraVars == <<tuneVars, toyVars, countVars, randVars, scriptVars>>

\* the variables of the parts above them
baseVars == <<habVars, regVars, cvVars, boostVars, rerunVars, jobsVars>>

vars == <<habVars, regVars, cvVars, boostVars, rerunVars, jobsVars, extraVars>>

-----------------------------------------------------------------------------
(* Bounds of the model *)

\* rows of the catalog whose cells are drawn freely
NFree == 2
\* rows of the catalog that hold the typical planet (all features 0)
NBulk == 25
\* most events in the ParticleID files
MaxEvents == 2
\* most samples (rows of xb) of the regularization notebook
MaxSamples == 2
\* most rows handed to cross_val_predict
MaxRows == 6

-----------------------------------------------------------------------------
(* Values *)

\* np.nan / an empty csv field.  Cell values of the model are >= 0.
NaN == -1

isna(x) == x = NaN

\* ==  of numpy/pandas: a comparison with NaN is False
Eq(a, b) == ~isna(a) /\ ~isna(b) /\ a = b

RECURSIVE SumSeq(_)
SumSeq(s) == IF s = <<>> THEN 0 ELSE Head(s) + SumSeq(Tail(s))

Abs(x) == IF x < 0 THEN -x ELSE x

\* s[final index] relabelled 0..n-1: DataFrame/Series.reset_index(drop=True)
reset_index(s) == [i \in 1..Len(s) |-> [s[i] EXCEPT !.index = i - 1]]

-----------------------------------------------------------------------------
(* Notebooks that are not run *)

HabIdle ==
    /\ notebook = "none"
    /\ pc = "none"
    /\ catalog = <<>>
    /\ df = <<>>
    /\ bindf = <<>>
    /\ final_features = <<>>
    /\ targets = <<>>
    /\ features_file = <<>>
    /\ labels_file = <<>>
    /\ features = <<>>
    /\ y = <<>>
    /\ le = <<>>
    /\ target = <<>>
    /\ features_lim = <<>>

RegIdle ==
    /\ reg_pc = "none"
    /\ xb = <<>>
    /\ poly = <<>>
    /\ new_xb = <<>>
    /\ reg_model = <<>>
    /\ coef_alpha_1000 = <<>>
    /\ coef_alpha_1 = <<>>
    /\ coef_no_reg = <<>>
    /\ coef_L1000 = <<>>
    /\ coef_L1 = <<>>
    /\ figure = <<>>
    /\ reg_raised = "none"

CvIdle ==
    /\ cv_pc = "none"
    /\ splitter = "none"
    /\ n_samples = 0
    /\ y_cv = <<>>
    /\ shuffled = <<>>
    /\ rotations = <<>>
    /\ splits = <<>>
    /\ predictions = <<>>
    /\ ypred = <<>>
    /\ cv_raised = "none"

BoostIdle ==
    /\ run = 0
    /\ phase = "none"
    /\ n_estimators = 0
    /\ boost_model = <<>>
    /\ curves = <<>>
    /\ boost_raised = "none"

RerunIdle ==
    /\ rr_notebook = "none"
    /\ execution = 0
    /\ rr_cell = 0
    /\ global_rng = 0
    /\ rr_out = <<>>
    /\ first_out = <<>>

JobsIdle ==
    /\ cpu_count = 0
    /\ jobs_call = 0
    /\ jobs_phase = "none"
    /\ pending = 0
    /\ in_process = 0
    /\ in_workers = 0

TuneIdle ==
    /\ tune_pc = "none"
    /\ cv_error = <<>>
    /\ MSE = <<>>
    /\ tune_i = 0
    /\ ridge_runs = 0
    /\ lasso_cv = <<>>
    /\ printed = <<>>

ToyIdle ==
    /\ toy_cell = "none"
    /\ toy_pc = "none"
    /\ toy_y = <<>>
    /\ toy_stages = <<>>
    /\ toy_i = 0
    /\ toy_printed = <<>>

CountIdle ==
    /\ count_pc = "none"
    /\ event_file = <<>>
    /\ types = <<>>
    /\ ntot = <<>>
    /\ nbtot = <<>>
    /\ njtot = <<>>
    /\ ngtot = <<>>
    /\ n_lepton_tot = <<>>
    /\ new_columns = <<>>

RandIdle ==
    /\ rand_pc = "none"
    /\ rand_target = <<>>
    /\ trial = 0
    /\ x_drawn = <<>>
    /\ acc = 0
    /\ accuracies = <<>>
    /\ rand_printed = <<>>
    /\ rand_raised = "none"

ScriptIdle ==
    /\ sc_notebook = "none"
    /\ sc_cell = 0
    /\ sc_iter = 0
    /\ sc_step = 0
    /\ sc_bound = 0
    /\ sc_log = <<>>
    /\ sc_raised = "none"

ExtraIdle == TuneIdle /\ ToyIdle /\ CountIdle /\ RandIdle /\ ScriptIdle

BaseIdle == HabIdle /\ RegIdle /\ CvIdle /\ BoostIdle /\ RerunIdle /\ JobsIdle
scriptOthers == <<baseVars, tuneVars, toyVars, countVars, randVars>>
ScriptOthersIdle == BaseIdle /\ TuneIdle /\ ToyIdle /\ CountIdle /\ RandIdle
randOthers == <<baseVars, tuneVars, toyVars, countVars, scriptVars>>
RandOthersIdle == BaseIdle /\ TuneIdle /\ ToyIdle /\ CountIdle /\ ScriptIdle
countOthers == <<baseVars, tuneVars, toyVars, randVars, scriptVars>>
CountOthersIdle == BaseIdle /\ TuneIdle /\ ToyIdle /\ RandIdle /\ ScriptIdle
toyOthers == <<baseVars, tuneVars, countVars, randVars, scriptVars>>
ToyOthersIdle == BaseIdle /\ TuneIdle /\ CountIdle /\ RandIdle /\ ScriptIdle
tuneOthers == <<baseVars, toyVars, countVars, randVars, scriptVars>>
TuneOthersIdle == BaseIdle /\ ToyIdle /\ CountIdle /\ RandIdle /\ ScriptIdle

-----------------------------------------------------------------------------
(* habitable_planets.ipynb, first notebook: the exoplanet catalog *)

FeatureColumns == <<"S_MASS", "P_PERIOD", "P_DISTANCE">>

\* pd.read_csv: the rows of the file under a RangeIndex 0..n-1
read_csv(file) ==
    [i \in 1..Len(file) |->
        [index |-> i - 1, src |-> i,
         S_MASS |-> file[i].S_MASS, P_PERIOD |-> file[i].P_PERIOD,
         P_DISTANCE |-> file[i].P_DISTANCE, P_HABITABLE |-> file[i].P_HABITABLE]]

\* df.drop('P_HABITABLE', axis = 1)
DropHabitable(frame) ==
    [i \in 1..Len(frame) |->
        [index |-> frame[i].index, src |-> frame[i].src,
         S_MASS |-> frame[i].S_MASS, P_PERIOD |-> frame[i].P_PERIOD,
         P_DISTANCE |-> frame[i].P_DISTANCE]]

\* np.logical_or(df.P_HABITABLE == 1, df.P_HABITABLE == 2), a boolean
LumpAlt(h) == Eq(h, 1)
Lump(h) == Eq(h, 1) \/ Eq(h, 2)

\* .astype(int) of a boolean
astype_int(b) == IF b THEN 1 ELSE 0

\* bindf['P_HABITABLE'] = <Series>: assignment aligns on the index label
HabitabilityTag(frame, source) ==
    [i \in 1..Len(frame) |->
        LET r == frame[i]
            j == CHOOSE k \in 1..Len(source) : source[k].index = r.index
        IN [index |-> r.index, src |-> r.src,
            S_MASS |-> r.S_MASS, P_PERIOD |-> r.P_PERIOD,
            P_DISTANCE |-> r.P_DISTANCE,
            P_HABITABLE |-> astype_int(Lump(source[j].P_HABITABLE))]]

\* bindf[['S_MASS', 'P_PERIOD', 'P_DISTANCE']]
SelectFeatureColumns(frame) == DropHabitable(frame)

\* bindf.P_HABITABLE: a Series sharing the frame's index
HabitableColumn(frame) ==
    [i \in 1..Len(frame) |->
        [index |-> frame[i].index, src |-> frame[i].src,
         value |-> frame[i].P_HABITABLE]]

Cell(r, c) ==
    CASE c = "S_MASS" -> r.S_MASS
      [] c = "P_PERIOD" -> r.P_PERIOD
      [] c = "P_DISTANCE" -> r.P_DISTANCE

RowHasNaN(r) == \E k \in 1..Len(FeatureColumns) : isna(Cell(r, FeatureColumns[k]))

\* final_features.dropna(axis = 0)
\* dropna(how = 'all')
dropnaAlt(frame) ==
    SelectSeq(frame, LAMBDA r :
        \E k \in 1..Len(FeatureColumns) : ~isna(Cell(r, FeatureColumns[k])))
dropna(frame) == SelectSeq(frame, LAMBDA r : ~RowHasNaN(r))

\* the threshold of the outlier cut
ZThreshold == 5

Column(frame, c) == [i \in 1..Len(frame) |-> Cell(frame[i], c)]

\* |stats.zscore(col)[x]| < thr, in exact arithmetic.  z = (x - mean) / std
\* with the population standard deviation (ddof = 0); with n = Len(col),
\* S the sum and Q the sum of squares, (x - mean)^2 / var < thr^2 is
\* (n x - S)^2 < thr^2 (n Q - S^2).  A column holding a NaN, or of variance
\* 0 (z = 0/0), has only NaN z-scores, and NaN < thr is False.
AbsZscoreBelowAlt(col, x, thr) ==
    LET n == Len(col)
        S == SumSeq(col)
        Q == SumSeq([i \in 1..n |-> col[i] * col[i]])
    IN /\ \A i \in 1..n : ~isna(col[i])
       /\ n * Q - S * S > 0
       /\ (n * x - S) * (n * x - S) <= thr * thr * (n * Q - S * S)
AbsZscoreBelow(col, x, thr) ==
    LET n == Len(col)
        S == SumSeq(col)
        Q == SumSeq([i \in 1..n |-> col[i] * col[i]])
    IN /\ \A i \in 1..n : ~isna(col[i])
       /\ n * Q - S * S > 0
       /\ (n * x - S) * (n * x - S) < thr * thr * (n * Q - S * S)

\* (np.abs(stats.zscore(final_features)) < 5).all(axis=1), for one row
WithinAllColumns(frame, r) ==
    \A k \in 1..Len(FeatureColumns) :
        AbsZscoreBelow(Column(frame, FeatureColumns[k]),
                       Cell(r, FeatureColumns[k]), ZThreshold)

\* final_features[mask]
ZscoreFilter(frame) == SelectSeq(frame, LAMBDA r : WithinAllColumns(frame, r))

\* targets[final_features.index]: selection by index label, in the order of
\* the labels asked for
SelectByIndexAlt(series, frame) ==
    [i \in 1..Len(frame) |-> series[i]]
SelectByIndex(series, frame) ==
    [i \in 1..Len(frame) |->
        series[CHOOSE k \in 1..Len(series) : series[k].index = frame[i].index]]

(* the files the notebook may find *)

\* a free row: a possibly habitable planet, each feature typical, far from
\* typical, or (the star mass) missing
FreeRows ==
    [S_MASS : {0, 1, NaN}, P_PERIOD : {0, 7}, P_DISTANCE : {0, 3},
     P_HABITABLE : {2}]

\* the typical planet; the tags run through 0, 1, 2, 3 and a missing value
BulkRow(k) ==
    [S_MASS |-> 0, P_PERIOD |-> 0, P_DISTANCE |-> 0,
     P_HABITABLE |-> IF k % 5 = 4 THEN NaN ELSE k % 5]

\* the free rows are rows 1, 3, 5, ... of the file
Catalogs ==
    { [i \in 1..(NFree + NBulk) |->
          IF i % 2 = 1 /\ (i + 1) \div 2 <= NFree
          THEN free[(i + 1) \div 2]
          ELSE BulkRow(i)] : free \in [1..NFree -> FreeRows] }

PlanetsIdle ==
    /\ catalog = <<>>
    /\ df = <<>>
    /\ bindf = <<>>
    /\ final_features = <<>>
    /\ targets = <<>>

ParticleIdle ==
    /\ features_file = <<>>
    /\ labels_file = <<>>
    /\ features = <<>>
    /\ y = <<>>
    /\ le = <<>>
    /\ target = <<>>
    /\ features_lim = <<>>

InitPlanets ==
    /\ notebook = "planets"
    /\ pc = "read_csv"
    /\ catalog \in Catalogs
    /\ df = <<>>
    /\ bindf = <<>>
    /\ final_features = <<>>
    /\ targets = <<>>
    /\ ParticleIdle

PlanetsCell(from, to) ==
    /\ notebook = "planets"
    /\ pc = from
    /\ pc' = to
    /\ UNCHANGED <<notebook, catalog, particleVars, regVars, cvVars, boostVars, rerunVars, jobsVars, extraVars>>

\* df = pd.read_csv('../data/phl_exoplanet_catalog.csv', sep = ',')
ReadCatalog ==
    /\ PlanetsCell("read_csv", "drop_tag")
    /\ df' = read_csv(catalog)
    /\ UNCHANGED <<bindf, final_features, targets>>

\* bindf = df.drop('P_HABITABLE', axis = 1)
DropOldTag ==
    /\ PlanetsCell("drop_tag", "new_tag")
    /\ bindf' = DropHabitable(df)
    /\ UNCHANGED <<df, final_features, targets>>

\* bindf['P_HABITABLE'] = logical_or(...); bindf['P_HABITABLE'].astype(int)
NewTag ==
    /\ PlanetsCell("new_tag", "select_features")
    /\ bindf' = HabitabilityTag(bindf, df)
    /\ UNCHANGED <<df, final_features, targets>>

\* final_features = bindf[['S_MASS', 'P_PERIOD', 'P_DISTANCE']]
SelectFeatures ==
    /\ PlanetsCell("select_features", "select_targets")
    /\ final_features' = SelectFeatureColumns(bindf)
    /\ UNCHANGED <<df, bindf, targets>>

\* targets = bindf.P_HABITABLE
SelectTargets ==
    /\ PlanetsCell("select_targets", "dropna")
    /\ targets' = HabitableColumn(bindf)
    /\ UNCHANGED <<df, bindf, final_features>>

\* final_features = final_features.dropna(axis = 0)
DropNa ==
    /\ PlanetsCell("dropna", "zscore")
    /\ final_features' = dropna(final_features)
    /\ UNCHANGED <<df, bindf, targets>>

\* final_features = final_features[(np.abs(stats.zscore(...)) < 5).all(axis=1)]
RemoveOutliers ==
    /\ PlanetsCell("zscore", "subset_targets")
    /\ final_features' = ZscoreFilter(final_features)
    /\ UNCHANGED <<df, bindf, targets>>

\* targets = targets[final_features.index]
SubsetTargets ==
    /\ PlanetsCell("subset_targets", "reset_features")
    /\ targets' = SelectByIndex(targets, final_features)
    /\ UNCHANGED <<df, bindf, final_features>>

\* final_features = final_features.reset_index(drop=True)
ResetFeatures ==
    /\ PlanetsCell("reset_features", "reset_targets")
    /\ final_features' = reset_index(final_features)
    /\ UNCHANGED <<df, bindf, targets>>

\* targets = targets.reset_index(drop=True)
ResetTargets ==
    /\ PlanetsCell("reset_targets", "cleaned")
    /\ targets' = reset_index(targets)
    /\ UNCHANGED <<df, bindf, final_features>>

NextPlanets ==
    \/ ReadCatalog
    \/ DropOldTag
    \/ NewTag
    \/ SelectFeatures
    \/ SelectTargets
    \/ DropNa
    \/ RemoveOutliers
    \/ SubsetTargets
    \/ ResetFeatures
    \/ ResetTargets

-----------------------------------------------------------------------------
(* habitable_planets.ipynb, second notebook: ParticleID, SVM *)

\* the class names, as sequences of code points: '4top' and 'ttbar'
Label4top == <<52, 116, 111, 112>>
LabelTtbar == <<116, 116, 98, 97, 114>>

\* a < b for numpy strings: lexicographic on code points
RECURSIVE StrLess(_, _)
StrLess(a, b) ==
    IF b = <<>> THEN FALSE
    ELSE IF a = <<>> THEN TRUE
    ELSE IF Head(a) # Head(b) THEN Head(a) < Head(b)
    ELSE StrLess(Tail(a), Tail(b))

Values(s) == {s[i] : i \in 1..Len(s)}

\* np.unique: the distinct values, sorted
RECURSIVE SortedSeq(_)
SortedSeq(S) ==
    IF S = {} THEN <<>>
    ELSE LET m == CHOOSE a \in S : \A b \in S \ {a} : StrLess(a, b)
         IN <<m>> \o SortedSeq(S \ {m})

\* the distinct values in the order of their first appearance
RECURSIVE FirstSeen(_)
FirstSeen(s) ==
    IF s = <<>> THEN <<>>
    ELSE <<Head(s)>> \o FirstSeen(SelectSeq(Tail(s), LAMBDA a : a # Head(s)))

\* LabelEncoder.fit: classes_ = np.unique(y)
LabelEncoderFitAlt(labels) == FirstSeen(labels)
LabelEncoderFit(labels) == SortedSeq(Values(labels))

\* LabelEncoder.transform: the position of each label in classes_, from 0
LabelEncoderTransform(classes, labels) ==
    [i \in 1..Len(labels) |->
        (CHOOSE k \in 1..Len(classes) : classes[k] = labels[i]) - 1]

\* np.abs(y - 1)
AbsMinusOne(codes) == [i \in 1..Len(codes) |-> Abs(codes[i] - 1)]

\* the columns of features_lim that the model keeps (of MET, METphi, P1..P16)
LimColumns == <<"MET", "P10">>

\* pd.read_csv(..., index_col='ID')
read_features(file) ==
    [i \in 1..Len(file) |->
        [index |-> file[i].ID, src |-> i, MET |-> file[i].MET, P10 |-> file[i].P10]]

\* features[['MET', ..., 'P16']]
SelectLimColumns(frame) ==
    [i \in 1..Len(frame) |->
        [index |-> frame[i].index, src |-> frame[i].src,
         MET |-> frame[i].MET, P10 |-> frame[i].P10]]

Fill(v, x) == IF isna(v) THEN x ELSE v

\* features_lim.fillna(x)
fillna(frame, x) ==
    [i \in 1..Len(frame) |->
        [frame[i] EXCEPT !.MET = Fill(@, x), !.P10 = Fill(@, x)]]

(* the files the notebook may find *)

EventRows(i) == [ID : {i - 1}, MET : {0, 5}, P10 : {NaN, 0, 9}]

FeatureFiles(n) ==
    { f \in [1..n -> UNION {EventRows(i) : i \in 1..n}] :
        \A i \in 1..n : f[i].ID = i - 1 }

LabelFiles(n) == [1..n -> {Label4top, LabelTtbar}]

InitParticle ==
    /\ notebook = "particle"
    /\ pc = "read_features"
    /\ \E n \in 1..MaxEvents :
          /\ features_file \in FeatureFiles(n)
          /\ labels_file \in LabelFiles(n)
    /\ features = <<>>
    /\ y = <<>>
    /\ le = <<>>
    /\ target = <<>>
    /\ features_lim = <<>>
    /\ PlanetsIdle

ParticleCell(from, to) ==
    /\ notebook = "particle"
    /\ pc = from
    /\ pc' = to
    /\ UNCHANGED <<notebook, features_file, labels_file, planetsVars, regVars, cvVars,
                   boostVars, rerunVars, jobsVars, extraVars>>

\* features = pd.read_csv('../data/ParticleID_features.csv', index_col='ID')
ReadFeatures ==
    /\ ParticleCell("read_features", "read_labels")
    /\ features' = read_features(features_file)
    /\ UNCHANGED <<y, le, target, features_lim>>

\* y = np.genfromtxt('../data/ParticleID_labels.txt', dtype = str)
ReadLabels ==
    /\ ParticleCell("read_labels", "fit_transform")
    /\ y' = labels_file
    /\ UNCHANGED <<features, le, target, features_lim>>

\* le = LabelEncoder(); y = le.fit_transform(y)
FitTransform ==
    /\ ParticleCell("fit_transform", "abs_target")
    /\ le' = LabelEncoderFit(y)
    /\ y' = LabelEncoderTransform(LabelEncoderFit(y), y)
    /\ UNCHANGED <<features, target, features_lim>>

\* target = np.abs(y - 1)
AbsTarget ==
    /\ ParticleCell("abs_target", "select_lim")
    /\ target' = AbsMinusOne(y)
    /\ UNCHANGED <<features, y, le, features_lim>>

\* features_lim = features[['MET', 'METphi', 'P1', ..., 'P16']]
SelectLim ==
    /\ ParticleCell("select_lim", "fillna")
    /\ features_lim' = SelectLimColumns(features)
    /\ UNCHANGED <<features, y, le, target>>

\* features_lim = features_lim.fillna(0)
FillNa ==
    /\ ParticleCell("fillna", "explore_labels")
    /\ features_lim' = fillna(features_lim, 0)
    /\ UNCHANGED <<features, y, le, target>>

NextParticle ==
    \/ ReadFeatures
    \/ ReadLabels
    \/ FitTransform
    \/ AbsTarget
    \/ SelectLim
    \/ FillNa

-----------------------------------------------------------------------------
(* The file habitable_planets.ipynb: one of its two notebooks is run *)

InitHabitable == (InitPlanets \/ InitParticle) /\ RegIdle /\ CvIdle /\ BoostIdle /\ RerunIdle /\ JobsIdle /\ ExtraIdle
NextHabitable == NextPlanets \/ NextParticle
SpecHabitable == InitHabitable /\ [][NextHabitable]_vars

-----------------------------------------------------------------------------
(* regularization.ipynb *)

\* itertools.combinations_with_replacement(range(lo, n), d), in its order
RECURSIVE CombinationsFrom(_, _, _)
CombinationsFrom(lo, n, d) ==
    IF d = 0 THEN << <<>> >>
    ELSE IF lo >= n THEN <<>>
    ELSE [k \in 1..Len(CombinationsFrom(lo, n, d - 1)) |->
             <<lo>> \o CombinationsFrom(lo, n, d - 1)[k]]
         \o CombinationsFrom(lo + 1, n, d)

\* PolynomialFeatures._combinations: the exponent combinations of degree
\* start..degree, start = int(not include_bias)
RECURSIVE CombinationsUpTo(_, _, _)
CombinationsUpTo(n, from, degree) ==
    IF from > degree THEN <<>>
    ELSE CombinationsFrom(0, n, from) \o CombinationsUpTo(n, from + 1, degree)

PolyCombinationsAlt(n, degree, include_bias) == CombinationsUpTo(n, 0, degree)
PolyCombinations(n, degree, include_bias) ==
    CombinationsUpTo(n, IF include_bias THEN 0 ELSE 1, degree)

RECURSIVE Product(_, _)
Product(row, comb) ==
    IF comb = <<>> THEN 1 ELSE row[Head(comb) + 1] * Product(row, Tail(comb))

\* poly.fit_transform(X): one column per combination, the product of the
\* columns it names
PolyFitTransform(p, X) ==
    [i \in 1..Len(X) |->
        LET combs == PolyCombinations(Len(X[i]), p.degree, p.include_bias)
        IN [k \in 1..Len(combs) |-> Product(X[i], combs[k])]]

\* Ridge(alpha).fit(X, y) / Lasso(alpha).fit(X, y): one coefficient for each
\* column of X and one intercept.  The fitted numbers are not computed: a
\* coefficient is named by its estimator, its alpha and its column.
Fit(estimator, alpha, X) ==
    [coef_ |-> [j \in 1..Len(X[1]) |->
                   [of |-> estimator, alpha |-> alpha, term |-> j]],
     intercept_ |-> [of |-> estimator, alpha |-> alpha, term |-> "intercept"]]

\* np.hstack([model.coef_, model.intercept_])
HstackCoef(mdl) == mdl.coef_ \o <<mdl.intercept_>>

\* np.arange(10)
NBars == 10

\* the tick labels of the coefficient plots
TickLabels == <<"1", "2", "3", "4", "5", "6", "7", "8", "9", "Intercept">>

\* plt.bar(np.arange(n) + offset, heights): x and height are broadcast
\* against each other, which fails unless they are as long (or one is of
\* length 1)
BarFits(n, heights) == n = Len(heights) \/ n = 1 \/ Len(heights) = 1

Bars(n, offset, heights) ==
    [k \in 1..n |-> [x |-> k - 1, offset |-> offset, height |-> heights[k]]]

\* the three, or five, plt.bar calls and plt.xticks of a coefficient plot
CoefficientPlot(series) ==
    [bars |-> [s \in 1..Len(series) |-> Bars(NBars, series[s].offset, series[s].coef)],
     ticks |-> [k \in 1..NBars |-> k - 1],
     rand_target |-> TickLabels]

PlotFits(series) ==
    /\ \A s \in 1..Len(series) : BarFits(NBars, series[s].coef)
    /\ Len(TickLabels) = NBars

(* the data *)

Matrices == UNION {[1..n -> [1..3 -> {1, 2}]] : n \in 1..MaxSamples}

InitRegularization ==
    /\ reg_pc = "vstack"
    /\ xb \in Matrices
    /\ poly = <<>>
    /\ new_xb = <<>>
    /\ reg_model = <<>>
    /\ coef_alpha_1000 = <<>>
    /\ coef_alpha_1 = <<>>
    /\ coef_no_reg = <<>>
    /\ coef_L1000 = <<>>
    /\ coef_L1 = <<>>
    /\ figure = <<>>
    /\ reg_raised = "none"
    /\ HabIdle
    /\ CvIdle
    /\ BoostIdle /\ RerunIdle /\ JobsIdle /\ ExtraIdle

RegCell(from, to) ==
    /\ reg_pc = from
    /\ reg_raised = "none"
    /\ reg_pc' = to
    /\ UNCHANGED <<habVars, cvVars, boostVars, rerunVars, jobsVars, extraVars>>

\* poly = PolynomialFeatures(2, include_bias=False)
MakePoly ==
    /\ RegCell("vstack", "fit_transform")
    /\ poly' = [degree |-> 2, include_bias |-> FALSE]
    /\ UNCHANGED <<xb, new_xb, reg_model, coef_alpha_1000, coef_alpha_1,
                   coef_no_reg, coef_L1000, coef_L1, figure, reg_raised>>

\* new_xb = poly.fit_transform(xb)
PolyTransform ==
    /\ RegCell("fit_transform", "ridge_1000")
    /\ new_xb' = PolyFitTransform(poly, xb)
    /\ UNCHANGED <<xb, poly, reg_model, coef_alpha_1000, coef_alpha_1,
                   coef_no_reg, coef_L1000, coef_L1, figure, reg_raised>>

\* model = Ridge(alpha = 1000., normalize = True); model.fit(new_xb,ypb)
\* coef_alpha_1000 = np.hstack([model.coef_, model.intercept_])
Ridge1000 ==
    /\ RegCell("ridge_1000", "ridge_1")
    /\ reg_model' = Fit("Ridge", "1000", new_xb)
    /\ coef_alpha_1000' = HstackCoef(Fit("Ridge", "1000", new_xb))
    /\ UNCHANGED <<xb, poly, new_xb, coef_alpha_1, coef_no_reg, coef_L1000,
                   coef_L1, figure, reg_raised>>

\* model = Ridge(alpha = 1., normalize = True); model.fit(new_xb,ypb)
\* coef_alpha_1 = np.hstack([model.coef_, model.intercept_])
Ridge1 ==
    /\ RegCell("ridge_1", "ridge_no_reg")
    /\ reg_model' = Fit("Ridge", "1", new_xb)
    /\ coef_alpha_1' = HstackCoef(Fit("Ridge", "1", new_xb))
    /\ UNCHANGED <<xb, poly, new_xb, coef_alpha_1000, coef_no_reg, coef_L1000,
                   coef_L1, figure, reg_raised>>

\* model = Ridge(alpha = 1e-7, normalize = True); model.fit(new_xb,ypb)
\* coef_no_reg = np.hstack([model.coef_, model.intercept_])
RidgeNoReg ==
    /\ RegCell("ridge_no_reg", "bar_chart")
    /\ reg_model' = Fit("Ridge", "1e-7", new_xb)
    /\ coef_no_reg' = HstackCoef(Fit("Ridge", "1e-7", new_xb))
    /\ UNCHANGED <<xb, poly, new_xb, coef_alpha_1000, coef_alpha_1, coef_L1000,
                   coef_L1, figure, reg_raised>>

RidgeSeries ==
    << [offset |-> "-0.2", coef |-> coef_alpha_1000],
       [offset |-> "-0.1", coef |-> coef_alpha_1],
       [offset |-> "0", coef |-> coef_no_reg] >>

AllSeries ==
    RidgeSeries \o << [offset |-> "+0.1", coef |-> coef_L1],
                      [offset |-> "+0.2", coef |-> coef_L1000] >>

\* a coefficient plot: the figure, or the ValueError of a bar that does not
\* fit, which stops the notebook
DrawPlot(series) ==
    IF PlotFits(series)
    THEN figure' = CoefficientPlot(series) /\ reg_raised' = "none"
    ELSE figure' = <<>> /\ reg_raised' = "ValueError"

\* the first coefficient plot: Ridge alpha = 1000, alpha = 1, no regularization
BarChart ==
    /\ RegCell("bar_chart", "lasso_1000")
    /\ DrawPlot(RidgeSeries)
    /\ UNCHANGED <<xb, poly, new_xb, reg_model, coef_alpha_1000, coef_alpha_1,
                   coef_no_reg, coef_L1000, coef_L1>>

\* L1000 = Lasso(alpha = 1000, ...); L1000.fit(new_xb, ypb)
\* coef_L1000 = np.hstack([L1000.coef_, L1000.intercept_])
Lasso1000 ==
    /\ RegCell("lasso_1000", "lasso_1")
    /\ coef_L1000' = HstackCoef(Fit("Lasso", "1000", new_xb))
    /\ UNCHANGED <<xb, poly, new_xb, reg_model, coef_alpha_1000, coef_alpha_1,
                   coef_no_reg, coef_L1, figure, reg_raised>>

\* L1 = Lasso(alpha = 1.0, ...); L1.fit(new_xb, ypb)
\* coef_L1 = np.hstack([L1.coef_, L1.intercept_])
Lasso1 ==
    /\ RegCell("lasso_1", "bar_chart_all")
    /\ coef_L1' = HstackCoef(Fit("Lasso", "1", new_xb))
    /\ UNCHANGED <<xb, poly, new_xb, reg_model, coef_alpha_1000, coef_alpha_1,
                   coef_no_reg, coef_L1000, figure, reg_raised>>

\* the plot of all the coefficients together
BarChartAll ==
    /\ RegCell("bar_chart_all", "end")
    /\ DrawPlot(AllSeries)
    /\ UNCHANGED <<xb, poly, new_xb, reg_model, coef_alpha_1000, coef_alpha_1,
                   coef_no_reg, coef_L1000, coef_L1>>

NextRegularization ==
    \/ MakePoly
    \/ PolyTransform
    \/ Ridge1000
    \/ Ridge1
    \/ RidgeNoReg
    \/ BarChart
    \/ Lasso1000
    \/ Lasso1
    \/ BarChartAll

SpecRegularization == InitRegularization /\ [][NextRegularization]_vars

-----------------------------------------------------------------------------
(* cross_val_predict with KFold(n_splits=5, shuffle=True, random_state=10),  *)
(* as called by boosting_decisions.ipynb.  Rows are numbered from 0.         *)

\* KFold(n_splits=5, ...)
n_splits == 5

RECURSIVE Concat(_)
Concat(blocks) ==
    IF blocks = <<>> THEN <<>> ELSE Head(blocks) \o Concat(Tail(blocks))

\* KFold._iter_test_indices: fold_sizes = n // k, the first n % k one larger
FoldSize(n, k, fold) == (n \div k) + (IF fold <= n % k THEN 1 ELSE 0)

RECURSIVE FoldStart(_, _, _)
FoldStart(n, k, fold) ==
    IF fold = 1 THEN 0 ELSE FoldStart(n, k, fold - 1) + FoldSize(n, k, fold - 1)

\* indices[start:stop] of the shuffled indices, for one fold
TestIndices(indices, k, fold) ==
    LET n == Len(indices)
    IN {indices[p] : p \in (FoldStart(n, k, fold) + 1)
                              ..(FoldStart(n, k, fold) + FoldSize(n, k, fold))}

\* the indices of a mask, ascending: indices[test_mask]
RECURSIVE Ascending(_)
Ascending(S) ==
    IF S = {} THEN <<>>
    ELSE LET m == CHOOSE a \in S : \A b \in S : a <= b
         IN <<m>> \o Ascending(S \ {m})

\* BaseCrossValidator.split: train = indices[np.logical_not(test_mask)]
TrainOfAlt(n, test) == Ascending(0..(n - 1))
TrainOf(n, test) == Ascending((0..(n - 1)) \ test)

\* list(cv.split(X, y))
KFoldSplit(indices, k) ==
    [fold \in 1..k |->
        [train |-> TrainOf(Len(indices), TestIndices(indices, k, fold)),
         test |-> Ascending(TestIndices(indices, k, fold))]]

\* StratifiedKFold._make_test_folds: the classes are numbered in the order of
\* their first appearance (y_encoded)
Encoded(yv) ==
    LET classes == FirstSeen(yv)
    IN [i \in 1..Len(yv) |->
           (CHOOSE c \in 1..Len(classes) : classes[c] = yv[i]) - 1] \o <<>>

Count(s, v) == Cardinality({i \in 1..Len(s) : s[i] = v})

\* y_counts = np.bincount(y_encoded)
ClassCounts(yv) ==
    LET enc == Encoded(yv)
    IN [c \in 1..Len(FirstSeen(yv)) |-> Count(enc, c - 1)] \o <<>>

\* y_order = np.sort(y_encoded)
SortedClasses(yv) ==
    LET counts == ClassCounts(yv)
    IN Concat([c \in 1..Len(counts) |-> [p \in 1..counts[c] |-> c - 1]])

\* allocation[i][c] = np.bincount(y_order[i :: n_splits])[c], i from 0
Allocation(y_order, k, i, c) ==
    Cardinality({p \in 1..Len(y_order) : (p - 1) % k = i /\ y_order[p] = c})

\* folds_for_class = np.arange(n_splits).repeat(allocation[:, c])
FoldsForClass(y_order, k, c) ==
    Concat([i \in 1..k |-> [p \in 1..Allocation(y_order, k, i - 1, c) |-> i - 1]])

\* rng.shuffle(folds_for_class), for an rng that rotates by rot
Rotate(s, rot) ==
    [p \in 1..Len(s) |-> s[((p - 1 + rot) % Len(s)) + 1]] \o <<>>

\* test_folds[y_encoded == c] = folds_for_class, class by class
TestFolds(yv, k, rots) ==
    LET enc == Encoded(yv)
        y_order == SortedClasses(yv)
        folds == [c \in 1..Len(rots) |->
                     Rotate(FoldsForClass(y_order, k, c - 1), rots[c])] \o <<>>
    IN [i \in 1..Len(yv) |->
           folds[enc[i] + 1][Cardinality({j \in 1..i : enc[j] = enc[i]})]] \o <<>>

\* list(cv.split(X, y)) of StratifiedKFold: the test mask of fold i is
\* test_folds == i
StratifiedSplit(yv, k, rots) ==
    LET test_folds == TestFolds(yv, k, rots)
    IN [fold \in 1..k |->
           LET test == {i - 1 : i \in {j \in 1..Len(yv) : test_folds[j] = fold - 1}}
           IN [train |-> TrainOf(Len(yv), test), test |-> Ascending(test)]]

\* np.all(self.n_splits > y_counts): no class has n_splits members
NoClassLargeEnough(yv, k) ==
    \A c \in 1..Len(ClassCounts(yv)) : k > ClassCounts(yv)[c]

\* _check_is_permutation(test_indices, n_samples)
IsPermutation(test_indices, n) ==
    /\ Len(test_indices) = n
    /\ \A r \in 0..(n - 1) : \E p \in 1..n : test_indices[p] = r

\* _fit_and_predict: the estimator is fitted on X[train] and predicts
\* X[test].  A prediction is named by its row and the rows it was trained on.
FitAndPredict(train, test) ==
    [p \in 1..Len(test) |->
        [row |-> test[p], trained_on |-> {train[q] : q \in 1..Len(train)}]]

\* inv_test_indices[test_indices] = np.arange(len(test_indices));
\* np.concatenate(predictions)[inv_test_indices]
Assemble(blocks, test_indices) ==
    LET flat == Concat(blocks)
        inv == [r \in 0..(Len(test_indices) - 1) |->
                   (CHOOSE p \in 1..Len(test_indices) : test_indices[p] = r) - 1]
    IN [i \in 1..Len(test_indices) |-> flat[inv[i - 1] + 1]]

Shuffles(n) ==
    {f \in [1..n -> 0..(n - 1)] : \A i, j \in 1..n : f[i] = f[j] => i = j}

\* the shuffles of the folds of each class: one rotation for each class
Rotations(yv) ==
    {r \in [1..Len(FirstSeen(yv)) -> 0..(Len(yv) - 1)] :
        \A c \in 1..Len(FirstSeen(yv)) : r[c] < ClassCounts(yv)[c]}

InitKFold ==
    /\ splitter = "KFold"
    /\ n_samples \in (n_splits - 1)..MaxRows
    /\ shuffled \in Shuffles(n_samples)
    /\ y_cv = <<>>
    /\ rotations = <<>>

InitStratifiedKFold ==
    /\ splitter = "StratifiedKFold"
    /\ n_samples \in (n_splits - 1)..MaxRows
    /\ y_cv \in [1..n_samples -> {0, 1}]
    /\ rotations \in Rotations(y_cv)
    /\ shuffled = <<>>

InitCV ==
    /\ cv_pc = "split"
    /\ InitKFold \/ InitStratifiedKFold
    /\ splits = <<>>
    /\ predictions = <<>>
    /\ ypred = <<>>
    /\ cv_raised = "none"
    /\ HabIdle
    /\ RegIdle
    /\ BoostIdle /\ RerunIdle /\ JobsIdle /\ ExtraIdle

\* _BaseKFold.split raises when n_splits > n_samples, StratifiedKFold when no
\* class has n_splits members
SplitRaises ==
    \/ n_splits > n_samples
    \/ splitter = "StratifiedKFold" /\ NoClassLargeEnough(y_cv, n_splits)

\* splits = list(cv.split(X, y, groups)); cross_val_predict raises when the
\* test sets are no partition of the rows
Split ==
    /\ cv_pc = "split"
    /\ IF SplitRaises
       THEN /\ cv_raised' = "ValueError"
            /\ cv_pc' = "raised"
            /\ UNCHANGED splits
       ELSE LET sp == IF splitter = "KFold"
                      THEN KFoldSplit(shuffled, n_splits)
                      ELSE StratifiedSplit(y_cv, n_splits, rotations)
                tests == Concat([k \in 1..n_splits |-> sp[k].test])
            IN /\ splits' = sp
               /\ IF IsPermutation(tests, n_samples)
                  THEN cv_pc' = "fit_and_predict" /\ UNCHANGED cv_raised
                  ELSE cv_pc' = "raised" /\ cv_raised' = "ValueError"
    /\ UNCHANGED <<splitter, n_samples, y_cv, shuffled, rotations, predictions,
                   ypred, habVars, regVars, boostVars, rerunVars, jobsVars, extraVars>>

\* one _fit_and_predict(clone(estimator), X, y, train, test, ...), in the
\* order of the splits
FitAndPredictFold ==
    /\ cv_pc = "fit_and_predict"
    /\ Len(predictions) < Len(splits)
    /\ LET k == Len(predictions) + 1
       IN predictions' = Append(predictions, FitAndPredict(splits[k].train, splits[k].test))
    /\ UNCHANGED <<cv_pc, splitter, n_samples, y_cv, shuffled, rotations, splits,
                   ypred, cv_raised, habVars, regVars, boostVars, rerunVars, jobsVars, extraVars>>

\* return predictions[inv_test_indices]
Return ==
    /\ cv_pc = "fit_and_predict"
    /\ Len(predictions) = Len(splits)
    /\ ypred' = Assemble(predictions, Concat([k \in 1..Len(splits) |-> splits[k].test]))
    /\ cv_pc' = "returned"
    /\ UNCHANGED <<splitter, n_samples, y_cv, shuffled, rotations, splits,
                   predictions, cv_raised, habVars, regVars, boostVars, rerunVars, jobsVars, extraVars>>

NextCV == Split \/ FitAndPredictFold \/ Return

SpecCV == InitCV /\ [][NextCV]_vars

-----------------------------------------------------------------------------
(* boosting_decisions.ipynb: the staged diagnostics on the photo-z data *)

\* The diagnostics in the order of the notebook.  param is the n_estimators
\* the ensemble is built with, loop the value given to the variable
\* n_estimators; the first diagnostic builds and fits the model in two cells
\* and sets the variable only in its plotting cell.
Diagnostics ==
    << [kind |-> "AdaBoost", max_depth |-> 3, param |-> 30, loop |-> 30,
        set_in |-> "plot"],
       [kind |-> "AdaBoost", max_depth |-> 6, param |-> 30, loop |-> 30,
        set_in |-> "model"],
       [kind |-> "AdaBoost", max_depth |-> 10, param |-> 30, loop |-> 30,
        set_in |-> "model"],
       [kind |-> "AdaBoost", max_depth |-> 3, param |-> 30, loop |-> 30,
        set_in |-> "model"],
       [kind |-> "AdaBoost", max_depth |-> 6, param |-> 30, loop |-> 30,
        set_in |-> "model"],
       [kind |-> "AdaBoost", max_depth |-> 10, param |-> 30, loop |-> 30,
        set_in |-> "model"],
       [kind |-> "AdaBoost", max_depth |-> 10, param |-> 60, loop |-> 60,
        set_in |-> "model"],
       [kind |-> "GBR", max_depth |-> 3, param |-> 30, loop |-> 30,
        set_in |-> "model"],
       [kind |-> "GBR", max_depth |-> 6, param |-> 30, loop |-> 30,
        set_in |-> "model"],
       [kind |-> "GBR", max_depth |-> 10, param |-> 30, loop |-> 30,
        set_in |-> "model"] >>

\* AdaBoostRegressor._boost, by the weighted error of the new estimator on the
\* training set: "zero" (estimator_error <= 0), "low" (0 < error < 0.5),
\* "high" (error >= 0.5).  The error depends on the training data and on the
\* bootstrap sample, which the unseeded estimator draws anew on every run.
ErrorClasses == {"zero", "low", "high"}

\* the estimators_ after the boost of one more estimator: on "high" error the
\* new estimator is discarded unless it is the only one
AfterBoost(count, err) ==
    IF err = "high" /\ count + 1 > 1 THEN count ELSE count + 1

\* BaseWeightBoosting.fit: the loop ends early when _boost returns no sample
\* weights (error >= 0.5) or when estimator_error == 0
StopsBoosting(err) == err \in {"zero", "high"}

\* list(model.staged_predict(X_test)): one prediction for each of estimators_
StagedPredict(mdl) == [i \in 1..mdl.estimators_ |-> [stage |-> i]]

\* [metric(y_test, list(model.staged_predict(X_test))[i]) for i in range(n)]
CurveAlt(metric, mdl, n) ==
    [i \in 1..n |-> [x |-> i, metric |-> metric, against |-> "y_test",
                     prediction |-> StagedPredict(mdl)[i]]]
Curve(metric, mdl, n) ==
    [i \in 1..n |-> [x |-> i - 1, metric |-> metric, against |-> "y_test",
                     prediction |-> StagedPredict(mdl)[i]]]

\* list(...)[i] for i in range(n) raises IndexError when the list is shorter
IndexInRange(mdl, n) == n <= Len(StagedPredict(mdl))

InitBoosting ==
    /\ run = 1
    /\ phase = "model"
    /\ n_estimators = 0
    /\ boost_model = <<>>
    /\ curves = <<>>
    /\ boost_raised = "none"
    /\ HabIdle
    /\ RegIdle
    /\ CvIdle
    /\ RerunIdle
    /\ JobsIdle /\ ExtraIdle

BoostStep ==
    /\ run \in 1..Len(Diagnostics)
    /\ boost_raised = "none"
    /\ UNCHANGED <<habVars, regVars, cvVars, rerunVars, jobsVars, extraVars>>

\* n_estimators = 30; model = AdaBoostRegressor(base_estimator=
\* DecisionTreeRegressor(max_depth=md), n_estimators=n_estimators), or
\* GradientBoostingRegressor(max_depth=md, n_estimators=n_estimators)
MakeModel ==
    /\ BoostStep
    /\ phase = "model"
    /\ n_estimators' = IF Diagnostics[run].set_in = "model"
                       THEN Diagnostics[run].loop ELSE n_estimators
    /\ boost_model' = [kind |-> Diagnostics[run].kind,
                       max_depth |-> Diagnostics[run].max_depth,
                       n_estimators |-> Diagnostics[run].param,
                       estimators_ |-> 0]
    /\ phase' = "fit"
    /\ UNCHANGED <<run, curves, boost_raised>>

\* model.fit(X_train, y_train) of AdaBoostRegressor: one more pass of
\* for iboost in range(self.n_estimators)
BoostOne ==
    /\ BoostStep
    /\ phase = "fit"
    /\ boost_model.kind = "AdaBoost"
    /\ boost_model.estimators_ < boost_model.n_estimators
    /\ \E err \in ErrorClasses :
          /\ boost_model' = [boost_model EXCEPT
                                !.estimators_ = AfterBoost(@, err)]
          /\ phase' = IF StopsBoosting(err) THEN "plot" ELSE "fit"
    /\ UNCHANGED <<run, n_estimators, curves, boost_raised>>

\* the loop of model.fit ran through range(self.n_estimators)
BoostDone ==
    /\ BoostStep
    /\ phase = "fit"
    /\ boost_model.kind = "AdaBoost"
    /\ boost_model.estimators_ = boost_model.n_estimators
    /\ phase' = "plot"
    /\ UNCHANGED <<run, n_estimators, boost_model, curves, boost_raised>>

\* model.fit(X_train, y_train) of GradientBoostingRegressor: without
\* n_iter_no_change every one of the n_estimators stages is fitted
FitGBR ==
    /\ BoostStep
    /\ phase = "fit"
    /\ boost_model.kind = "GBR"
    /\ boost_model' = [boost_model EXCEPT !.estimators_ = boost_model.n_estimators]
    /\ phase' = "plot"
    /\ UNCHANGED <<run, n_estimators, curves, boost_raised>>

\* (n_estimators = 30;) the two plt.plot(range(n_estimators), [... for i in
\* range(n_estimators)]) of a diagnostic
Plot ==
    /\ BoostStep
    /\ phase = "plot"
    /\ LET n == IF Diagnostics[run].set_in = "plot"
                THEN Diagnostics[run].loop ELSE n_estimators
       IN /\ n_estimators' = n
          /\ IF IndexInRange(boost_model, n)
             THEN /\ curves' = <<Curve("r2_score", boost_model, n),
                                 Curve("spearmanr", boost_model, n)>>
                  /\ run' = run + 1
                  /\ phase' = IF run = Len(Diagnostics) THEN "end" ELSE "model"
                  /\ UNCHANGED boost_raised
             ELSE /\ boost_raised' = "IndexError"
                  /\ UNCHANGED <<run, phase, curves>>
    /\ UNCHANGED boost_model

NextBoosting == MakeModel \/ BoostOne \/ BoostDone \/ FitGBR \/ Plot

SpecBoosting == InitBoosting /\ [][NextBoosting]_vars

-----------------------------------------------------------------------------
(* A notebook executed twice: where its random numbers come from *)

\* the states of a random generator
RngStates == 8

Notebooks == {"regularization", "boosting", "particle", "planets"}

\* What a cell does with random generators, in order:
\*   seed    np.random.seed(arg) on the global generator
\*   global  a draw from the global generator: np.random.<distribution>, or
\*           an estimator or splitter left with random_state=None
\*   local   a draw from a generator made for the call from random_state=arg
\*   none    a computation that draws nothing
\* Cells are named by the line of the drawing statement.
RandomCells(nb) ==
    CASE nb = "regularization" ->
           << [line |-> 78, steps |-> <<[op |-> "seed", arg |-> 16],
                                        [op |-> "global", arg |-> 0]>>],
              [line |-> 176, steps |-> <<[op |-> "local", arg |-> 1]>>],
              [line |-> 207, steps |-> <<[op |-> "local", arg |-> 1]>>],
              [line |-> 233, steps |-> <<[op |-> "none", arg |-> 0]>>],
              [line |-> 371, steps |-> <<[op |-> "local", arg |-> 1]>>] >>
      [] nb = "boosting" ->
           << [line |-> 141, steps |-> <<[op |-> "local", arg |-> 10],
                                         [op |-> "global", arg |-> 0]>>],
              [line |-> 204, steps |-> <<[op |-> "local", arg |-> 10],
                                         [op |-> "global", arg |-> 0]>>],
              [line |-> 303, steps |-> <<[op |-> "local", arg |-> 1]>>],
              [line |-> 480, steps |-> <<[op |-> "local", arg |-> 42]>>],
              [line |-> 501, steps |-> <<[op |-> "global", arg |-> 0]>>] >>
      [] nb = "particle" ->
           << [line |-> 924, steps |-> <<[op |-> "global", arg |-> 0]>>],
              [line |-> 971, steps |-> <<[op |-> "local", arg |-> 101]>>],
              [line |-> 1005, steps |-> <<[op |-> "local", arg |-> 101]>>],
              [line |-> 1179, steps |-> <<[op |-> "global", arg |-> 0]>>],
              [line |-> 1243, steps |-> <<[op |-> "global", arg |-> 0]>>] >>
      [] nb = "planets" ->
           << [line |-> 83, steps |-> <<[op |-> "none", arg |-> 0]>>],
              [line |-> 286, steps |-> <<[op |-> "none", arg |-> 0]>>],
              [line |-> 360, steps |-> <<[op |-> "none", arg |-> 0]>>] >>

\* a generator started from the operating system's entropy: any state
Entropy == 0..(RngStates - 1)

\* RandomState(seed), np.random.seed(seed): the state is a function of the seed
Seeded(seed, rng) == seed % RngStates

\* one draw: the next state, which is also the number drawn
Advance(rng) == (5 * rng + 3) % RngStates

\* the steps of a cell from the global state rng: the state it leaves and the
\* numbers the cell's output is computed from
RECURSIVE Evaluate(_, _, _)
Evaluate(steps, rng, drawn) ==
    IF steps = <<>> THEN [rng |-> rng, drawn |-> drawn]
    ELSE LET step == Head(steps)
         IN CASE step.op = "seed" ->
                   Evaluate(Tail(steps), Seeded(step.arg, rng), drawn)
              [] step.op = "global" ->
                   Evaluate(Tail(steps), Advance(rng),
                            Append(drawn, Advance(rng)))
              [] step.op = "local" ->
                   Evaluate(Tail(steps), rng,
                            Append(drawn, Advance(Seeded(step.arg, rng))))
              [] step.op = "none" ->
                   Evaluate(Tail(steps), rng, drawn)

InitRerun ==
    /\ rr_notebook \in Notebooks
    /\ execution = 1
    /\ rr_cell = 1
    /\ global_rng \in Entropy
    /\ rr_out = <<>>
    /\ first_out = <<>>
    /\ HabIdle
    /\ RegIdle
    /\ CvIdle
    /\ BoostIdle
    /\ JobsIdle /\ ExtraIdle

\* the next cell of the notebook is evaluated
RunCell ==
    /\ execution \in {1, 2}
    /\ rr_cell <= Len(RandomCells(rr_notebook))
    /\ LET cell == RandomCells(rr_notebook)[rr_cell]
           res == Evaluate(cell.steps, global_rng, <<>>)
       IN /\ global_rng' = res.rng
          /\ rr_out' = Append(rr_out, [line |-> cell.line, drawn |-> res.drawn])
    /\ rr_cell' = rr_cell + 1
    /\ UNCHANGED <<rr_notebook, execution, first_out>>
    /\ UNCHANGED <<habVars, regVars, cvVars, boostVars, jobsVars, extraVars>>

\* the second execution starts in a new kernel: numpy seeds the global
\* generator from fresh entropy on import
RestartAndRunAll ==
    /\ execution = 1
    /\ rr_cell > Len(RandomCells(rr_notebook))
    /\ execution' = 2
    /\ rr_cell' = 1
    /\ first_out' = rr_out
    /\ rr_out' = <<>>
    /\ global_rng' \in Entropy
    /\ UNCHANGED rr_notebook
    /\ UNCHANGED <<habVars, regVars, cvVars, boostVars, jobsVars, extraVars>>

\* the second execution starts in the same kernel: the global generator is
\* where the first execution left it
RunAllAgain ==
    /\ execution = 1
    /\ rr_cell > Len(RandomCells(rr_notebook))
    /\ execution' = 2
    /\ rr_cell' = 1
    /\ first_out' = rr_out
    /\ rr_out' = <<>>
    /\ UNCHANGED <<rr_notebook, global_rng>>
    /\ UNCHANGED <<habVars, regVars, cvVars, boostVars, jobsVars, extraVars>>

NextRerun == RunCell \/ RestartAndRunAll \/ RunAllAgain

SpecRerun == InitRerun /\ [][NextRerun]_vars

-----------------------------------------------------------------------------
(* habitable_planets.ipynb, second notebook: the calls that go through joblib *)

\* the most processors of a machine
MaxCpus == 2

\* plot_learning_curve(..., n_jobs=-1, ...): the default of the notebook's
\* function; <<>> stands for None
plot_learning_curve_n_jobs == <<-1>>

\* The calls in the order of the notebook, with the n_jobs they run under and
\* the fits they hand to joblib: one per fold (cross_validate,
\* cross_val_predict), per fold and training size (learning_curve), per fold
\* and parameter candidate (GridSearchCV).
Calls ==
    << [line |-> 971, fn |-> "cross_validate", n_jobs |-> <<>>, tasks |-> 5],
       [line |-> 1005, fn |-> "cross_val_predict", n_jobs |-> <<>>, tasks |-> 5],
       [line |-> 1039, fn |-> "cross_validate", n_jobs |-> <<>>, tasks |-> 5],
       [line |-> 1179, fn |-> "learning_curve",
        n_jobs |-> plot_learning_curve_n_jobs, tasks |-> 5 * 5],
       [line |-> 1243, fn |-> "GridSearchCV", n_jobs |-> <<4>>,
        tasks |-> 5 * (2 * 4 * 5 * 3)],
       [line |-> 1566, fn |-> "cross_validate", n_jobs |-> <<>>, tasks |-> 5],
       [line |-> 1615, fn |-> "GridSearchCV", n_jobs |-> <<4>>,
        tasks |-> 5 * (2 * 4 * 4 * 3)],
       [line |-> 1729, fn |-> "cross_validate", n_jobs |-> <<>>, tasks |-> 5],
       [line |-> 1786, fn |-> "GridSearchCV", n_jobs |-> <<4>>,
        tasks |-> 5 * (2 * 4 * 5 * 1)],
       [line |-> 1838, fn |-> "cross_validate", n_jobs |-> <<>>, tasks |-> 5],
       [line |-> 1902, fn |-> "GridSearchCV", n_jobs |-> <<4>>,
        tasks |-> 5 * (2 * 4 * 4 * 1)] >>

\* joblib's effective_n_jobs: None is 1, a negative n is cpu_count + 1 + n
\* (at least 1), a positive n is n
EffectiveJobsAlt(n_jobs, cpus) ==
    IF n_jobs = <<>> THEN cpus
    ELSE IF n_jobs[1] < 0
         THEN (IF cpus + 1 + n_jobs[1] > 1 THEN cpus + 1 + n_jobs[1] ELSE 1)
         ELSE n_jobs[1]
EffectiveJobs(n_jobs, cpus) ==
    IF n_jobs = <<>> THEN 1
    ELSE IF n_jobs[1] < 0
         THEN (IF cpus + 1 + n_jobs[1] > 1 THEN cpus + 1 + n_jobs[1] ELSE 1)
         ELSE n_jobs[1]

\* the workers of the call being evaluated
Workers == EffectiveJobs(Calls[jobs_call].n_jobs, cpu_count)

InitJobs ==
    /\ cpu_count \in 1..MaxCpus
    /\ jobs_call = 1
    /\ jobs_phase = "cell"
    /\ pending = 0
    /\ in_process = 0
    /\ in_workers = 0
    /\ HabIdle
    /\ RegIdle
    /\ CvIdle
    /\ BoostIdle
    /\ RerunIdle
    /\ ExtraIdle

JobsStep ==
    /\ jobs_call \in 1..Len(Calls)
    /\ UNCHANGED <<cpu_count, habVars, regVars, cvVars, boostVars, rerunVars, extraVars>>

\* the cell reaches the call: Parallel(n_jobs=...)(delayed(...) for ...)
Dispatch ==
    /\ JobsStep
    /\ jobs_phase = "cell"
    /\ jobs_phase' = "call"
    /\ pending' = Calls[jobs_call].tasks
    /\ UNCHANGED <<jobs_call, in_process, in_workers>>

\* with one job joblib runs the next task in the calling process
StartInProcess ==
    /\ JobsStep
    /\ jobs_phase = "call"
    /\ Workers = 1
    /\ pending > 0
    /\ in_process = 0
    /\ pending' = pending - 1
    /\ in_process' = 1
    /\ UNCHANGED <<jobs_call, jobs_phase, in_workers>>

\* with more jobs a free worker process takes the next task
StartInWorker ==
    /\ JobsStep
    /\ jobs_phase = "call"
    /\ Workers > 1
    /\ pending > 0
    /\ in_workers < Workers
    /\ pending' = pending - 1
    /\ in_workers' = in_workers + 1
    /\ UNCHANGED <<jobs_call, jobs_phase, in_process>>

FinishInProcess ==
    /\ JobsStep
    /\ in_process > 0
    /\ in_process' = in_process - 1
    /\ UNCHANGED <<jobs_call, jobs_phase, pending, in_workers>>

FinishInWorker ==
    /\ JobsStep
    /\ in_workers > 0
    /\ in_workers' = in_workers - 1
    /\ UNCHANGED <<jobs_call, jobs_phase, pending, in_process>>

\* the call returns once every task has finished; the cell goes on
ReturnCall ==
    /\ JobsStep
    /\ jobs_phase = "call"
    /\ pending = 0
    /\ in_process = 0
    /\ in_workers = 0
    /\ jobs_phase' = "cell"
    /\ jobs_call' = jobs_call + 1
    /\ UNCHANGED <<pending, in_process, in_workers>>

NextJobs ==
    \/ Dispatch
    \/ StartInProcess
    \/ StartInWorker
    \/ FinishInProcess
    \/ FinishInWorker
    \/ ReturnCall

SpecJobs == InitJobs /\ [][NextJobs]_vars

-----------------------------------------------------------------------------
(* regularization.ipynb: alpha chosen by cross-validation, by hand for Ridge *)
(* and by LassoCV.  An alpha is held as its exponent of 10; a mean as the    *)
(* fraction [num, den].                                                      *)

\* the most executions of the manual Ridge cell
MaxRuns == 2

\* KFold(n_splits=10, shuffle=True, random_state=1)
reg_n_splits == 10

\* np.logspace(lo, hi, num), as exponents
Logspace(lo, hi, num) ==
    [i \in 1..num |-> lo + ((i - 1) * (hi - lo)) \div (num - 1)]

RidgeGrid == Logspace(-6, 6, 13)
LassoGrid == Logspace(-2, 2, 5)

\* np.mean
Mean(s) == [num |-> SumSeq(s), den |-> Len(s)]

\* unary minus
Neg(m) == [m EXCEPT !.num = -m.num]

\* m1 < m2
Less(m1, m2) == m1.num * m2.den < m2.num * m1.den

\* np.round: to the nearest integer, a half to the even one
Round(m) ==
    LET q == m.num \div m.den
        r == m.num % m.den
    IN IF 2 * r < m.den THEN q
       ELSE IF 2 * r > m.den THEN q + 1
       ELSE IF q % 2 = 0 THEN q ELSE q + 1

\* np.argmin: the first position of the minimum
ArgminAlt(s) ==
    CHOOSE i \in 1..Len(s) :
        /\ \A k \in 1..Len(s) : ~Less(s[k], s[i])
        /\ \A k \in (i + 1)..Len(s) : Less(s[i], s[k])
Argmin(s) ==
    CHOOSE i \in 1..Len(s) :
        /\ \A k \in 1..Len(s) : ~Less(s[k], s[i])
        /\ \A k \in 1..(i - 1) : Less(s[i], s[k])

\* the mean squared error of the model with alpha = 10^e on the test part of
\* fold f: what the data makes it
FoldError(err, e, f) == err[e] + (f % 2)

\* cross_validate(...)['test_score'] with scoring = 'neg_mean_squared_error'
TestScore(err, e) == [f \in 1..reg_n_splits |-> -FoldError(err, e, f)]

\* np.sort(alphas)[::-1] in LinearModelCV.fit
RECURSIVE SortDescending(_)
SortDescendingAlt(s) == s
SortDescending(s) ==
    IF s = <<>> THEN <<>>
    ELSE LET i == CHOOSE j \in 1..Len(s) : \A k \in 1..Len(s) : s[k] <= s[j]
         IN <<s[i]>> \o SortDescending(SubSeq(s, 1, i - 1) \o SubSeq(s, i + 1, Len(s)))

\* LassoCV(alphas = ..., cv = KFold(10, ...)).fit: alphas_, mse_path_ with a
\* row for each entry of alphas_ and a column for each fold, alpha_
LassoCVFit(err, alphas) ==
    LET sorted == SortDescending(alphas)
        path == [i \in 1..Len(sorted) |->
                    [f \in 1..reg_n_splits |-> FoldError(err, sorted[i], f)]]
    IN [alphas_ |-> sorted,
        mse_path_ |-> path,
        alpha_ |-> sorted[Argmin([i \in 1..Len(sorted) |-> Mean(path[i])])]]

\* the data: every alpha at the high error level except at most two
ErrorTables ==
    {[e \in (-6)..6 |-> IF e \in {a, b} THEN 1 ELSE 2] : a, b \in (-6)..7}

InitTuning ==
    /\ tune_pc = "ridge_cell"
    /\ cv_error \in ErrorTables
    /\ MSE = <<>>
    /\ tune_i = 0
    /\ ridge_runs = 0
    /\ lasso_cv = <<>>
    /\ printed = <<>>
    /\ TuneOthersIdle

\* MSE = []: the manual Ridge cell starts, for the first time or once more
RidgeStart ==
    /\ tune_pc \in {"ridge_cell", "ridge_done"}
    /\ ridge_runs < MaxRuns
    /\ MSE' = <<>>
    /\ printed' = <<>>
    /\ tune_i' = 1
    /\ ridge_runs' = ridge_runs + 1
    /\ tune_pc' = "ridge_loop"
    /\ UNCHANGED <<cv_error, lasso_cv, tuneOthers>>

\* for alpha in np.logspace(-6,6,13): cross_validate, print, MSE.append
RidgeIter ==
    /\ tune_pc = "ridge_loop"
    /\ tune_i <= Len(RidgeGrid)
    /\ LET alpha == RidgeGrid[tune_i]
           scores == TestScore(cv_error, alpha)
       IN /\ printed' = Append(printed, [alpha |-> alpha,
                                         value |-> Round(Neg(Mean(scores)))])
          /\ MSE' = Append(MSE, Neg(Mean(scores)))
    /\ tune_i' = tune_i + 1
    /\ UNCHANGED <<tune_pc, cv_error, ridge_runs, lasso_cv, tuneOthers>>

\* print('Best alpha:', np.logspace(-6,6,13)[np.argmin(MSE)])
RidgeBest ==
    /\ tune_pc = "ridge_loop"
    /\ tune_i > Len(RidgeGrid)
    /\ printed' = Append(printed, [best |-> RidgeGrid[Argmin(MSE)]])
    /\ tune_pc' = "ridge_done"
    /\ UNCHANGED <<cv_error, MSE, tune_i, ridge_runs, lasso_cv, tuneOthers>>

\* model = LassoCV(alphas = np.logspace(-2,2,5), ...); model.fit(new_xb,ypb)
\* print('Alphas', model.alphas_); print('Best alpha:', model.alpha_)
LassoFit ==
    /\ tune_pc = "ridge_done"
    /\ lasso_cv' = LassoCVFit(cv_error, LassoGrid)
    /\ printed' = <<[alphas |-> lasso_cv'.alphas_], [best |-> lasso_cv'.alpha_]>>
    /\ tune_i' = 1
    /\ tune_pc' = "lasso_loop"
    /\ UNCHANGED <<cv_error, MSE, ridge_runs, tuneOthers>>

\* for i, alpha in enumerate(model.alphas_):
\*     print('Score for alpha', alpha, np.mean(model.mse_path_[i,:]))
LassoReport ==
    /\ tune_pc = "lasso_loop"
    /\ tune_i <= Len(lasso_cv.alphas_)
    /\ printed' = Append(printed, [alpha |-> lasso_cv.alphas_[tune_i],
                                   score |-> Mean(lasso_cv.mse_path_[tune_i])])
    /\ tune_i' = tune_i + 1
    /\ UNCHANGED <<tune_pc, cv_error, MSE, ridge_runs, lasso_cv, tuneOthers>>

\* the report loop is over
LassoEnd ==
    /\ tune_pc = "lasso_loop"
    /\ tune_i > Len(lasso_cv.alphas_)
    /\ tune_pc' = "end"
    /\ UNCHANGED <<cv_error, MSE, tune_i, ridge_runs, lasso_cv, printed, tuneOthers>>

NextTuning ==
    RidgeStart \/ RidgeIter \/ RidgeBest \/ LassoFit \/ LassoReport \/ LassoEnd

SpecTuning == InitTuning /\ [][NextTuning]_vars

-----------------------------------------------------------------------------
(* boosting_decisions.ipynb: the toy models fitted stage by stage, and the  *)
(* R2 score printed for each stage                                          *)

\* the largest value of a target or of a prediction
ToyMax == 2

\* the toy cells: the line of the print, the entries of the list the loop
\* runs over, and whether the score goes through np.round(., 3)
ToyCells ==
    [AdaBoost3 |-> [line |-> 344, stages |-> 5, rounded |-> TRUE],
     AdaBoost6 |-> [line |-> 418, stages |-> 5, rounded |-> FALSE],
     GBR       |-> [line |-> 803, stages |-> 6, rounded |-> TRUE]]

ToyVectors == [1..3 -> 0..ToyMax]

\* sum of the squares of the entries of a - b
SquaredDistance(a, b) ==
    SumSeq([i \in 1..Len(a) |-> (a[i] - b[i]) * (a[i] - b[i])])

\* n times the sum of squares of a around its mean
ScaledVariation(a) ==
    Len(a) * SumSeq([i \in 1..Len(a) |-> a[i] * a[i]]) - SumSeq(a) * SumSeq(a)

\* sklearn.metrics.r2_score(y_true, y_pred): 1 - SS_res / SS_tot, SS_tot the
\* variation of y_true; with a constant y_true, 1 for a perfect prediction
\* and 0 otherwise
R2Score(y_true, y_pred) ==
    LET res == Len(y_true) * SquaredDistance(y_true, y_pred)
        tot == ScaledVariation(y_true)
    IN IF tot # 0 THEN [num |-> tot - res, den |-> tot]
       ELSE IF res # 0 THEN [num |-> 0, den |-> 1]
       ELSE [num |-> 1, den |-> 1]

\* np.round(m, 3)
Round3(m) == [num |-> Round([num |-> 1000 * m.num, den |-> m.den]), den |-> 1000]

\* regr_k.predict(X) for the k-th entry of the list: the later the stage, the
\* more training samples it reproduces
StagePrediction(first, yt, k) ==
    [i \in 1..Len(yt) |-> IF i < k THEN yt[i] ELSE first[i]]

InitToy ==
    /\ toy_cell \in DOMAIN ToyCells
    /\ toy_pc = "fit"
    /\ toy_y \in ToyVectors
    /\ toy_stages = <<>>
    /\ toy_i = 0
    /\ toy_printed = <<>>
    /\ ToyOthersIdle

\* regr_1.fit(X, y) ...; y_1 = regr_1.predict(X) ...
ToyFitPredict ==
    /\ toy_pc = "fit"
    /\ \E first \in ToyVectors :
          toy_stages' = [k \in 1..ToyCells[toy_cell].stages |->
                            StagePrediction(first, toy_y, k)]
    /\ toy_i' = 1
    /\ toy_pc' = "print"
    /\ UNCHANGED <<toy_cell, toy_y, toy_printed, toyOthers>>

\* for yp in [y_1,y_2,y_3,y_4,y_10]:
\*     print('r2 score: ', np.round(metrics.r2_score(yp,y),3))
ToyPrint ==
    /\ toy_pc = "print"
    /\ toy_i <= Len(toy_stages)
    /\ LET yp == toy_stages[toy_i]
           score == R2Score(yp, toy_y)
       IN toy_printed' = Append(toy_printed,
              IF ToyCells[toy_cell].rounded THEN Round3(score) ELSE score)
    /\ toy_i' = toy_i + 1
    /\ UNCHANGED <<toy_cell, toy_pc, toy_y, toy_stages, toyOthers>>

\* the plots that end the cell
ToyPlot ==
    /\ toy_pc = "print"
    /\ toy_i > Len(toy_stages)
    /\ toy_pc' = "end"
    /\ UNCHANGED <<toy_cell, toy_y, toy_stages, toy_i, toy_printed, toyOthers>>

NextToy == ToyFitPredict \/ ToyPrint \/ ToyPlot

SpecToy == InitToy /\ [][NextToy]_vars

-----------------------------------------------------------------------------
(* habitable_planets.ipynb, second notebook: the new features.  A cell of a  *)
(* Type column is [t, v]: a string ("str"), the number 0 ("int") or a        *)
(* missing value ("nan").                                                    *)

\* range(1,14): the columns Type_1 .. Type_13
TypeColumns == 1..13

Str(v) == [t |-> "str", v |-> v]
Zero == [t |-> "int", v |-> "0"]
Missing == [t |-> "nan", v |-> ""]

\* features.fillna(0), on the Type columns
FillTypeNa(frame) ==
    [j \in 1..Len(frame) |->
        [i \in TypeColumns |-> IF frame[j][i] = Missing THEN Zero ELSE frame[j][i]]]

\* features.replace('', 0), on the Type columns
ReplaceAlt(frame, old, new) == frame
Replace(frame, old, new) ==
    [j \in 1..Len(frame) |->
        [i \in TypeColumns |-> IF frame[j][i] = old THEN new ELSE frame[j][i]]]

\* np.sum(np.array([features['Type_'+str(i)].values[j] == v for i in range(1,14)]))
CountEqual(frame, j, v) == Cardinality({i \in TypeColumns : frame[j][i] = v})

\* -(np.sum(... == 0 ...) - 13) for j in range(features.shape[0])
CountNonZero(frame) == [j \in 1..Len(frame) |-> -(CountEqual(frame, j, Zero) - 13)]

\* np.sum(... == v ...) for j in range(features.shape[0])
CountType(frame, v) == [j \in 1..Len(frame) |-> CountEqual(frame, j, Str(v))]

\* n_el_tot + n_pos_tot + n_muneg_tot + n_mupos_tot
AddArrays(a, b) == [j \in 1..Len(a) |-> a[j] + b[j]]

\* the files the notebook may find: events whose first, second and last
\* particle fields vary, the others being empty
TypeFields == {Missing, Str(""), Str("b"), Str("j"), Str("g"), Str("e-")}

EventTypes ==
    {[i \in TypeColumns |-> IF i = 1 THEN a ELSE IF i = 13 THEN c
                            ELSE IF i = 2 THEN Str("j") ELSE Missing] :
        a, c \in TypeFields}

\* the number of events of a file
MaxTypeRows == 2

TypeFiles == UNION {[1..n -> EventTypes] : n \in 1..MaxTypeRows}

InitCounts ==
    /\ count_pc = "fillna"
    /\ event_file \in TypeFiles
    /\ types = event_file
    /\ ntot = <<>>
    /\ nbtot = <<>>
    /\ njtot = <<>>
    /\ ngtot = <<>>
    /\ n_lepton_tot = <<>>
    /\ new_columns = <<>>
    /\ CountOthersIdle

CountCell(from, to) ==
    /\ count_pc = from
    /\ count_pc' = to
    /\ UNCHANGED <<event_file, countOthers>>

\* features = features.fillna(0) #takes care of nan
FillTypes ==
    /\ CountCell("fillna", "replace")
    /\ types' = FillTypeNa(types)
    /\ UNCHANGED <<ntot, nbtot, njtot, ngtot, n_lepton_tot, new_columns>>

\* features = features.replace('', 0) #takes care of empty string values
ReplaceEmpty ==
    /\ CountCell("replace", "ntot")
    /\ types' = Replace(types, Str(""), Zero)
    /\ UNCHANGED <<ntot, nbtot, njtot, ngtot, n_lepton_tot, new_columns>>

\* ntot = np.array([-(np.sum(... == 0 ...) - 13) for j in ...])
CountProducts ==
    /\ CountCell("ntot", "Total_products")
    /\ ntot' = CountNonZero(types)
    /\ UNCHANGED <<types, nbtot, njtot, ngtot, n_lepton_tot, new_columns>>

\* features['Total_products'] = ntot
SetTotalProducts ==
    /\ CountCell("Total_products", "nbtot")
    /\ new_columns' = [c \in {"Total_products"} |-> ntot]
    /\ UNCHANGED <<types, ntot, nbtot, njtot, ngtot, n_lepton_tot>>

\* nbtot = np.array([np.sum(... == 'b' ...) for j in ...])
CountB ==
    /\ CountCell("nbtot", "Total_b")
    /\ nbtot' = CountType(types, "b")
    /\ UNCHANGED <<types, ntot, njtot, ngtot, n_lepton_tot, new_columns>>

\* features['Total_b'] = nbtot
SetTotalB ==
    /\ CountCell("Total_b", "njtot")
    /\ new_columns' = [c \in DOMAIN new_columns \cup {"Total_b"} |->
                          IF c = "Total_b" THEN nbtot ELSE new_columns[c]]
    /\ UNCHANGED <<types, ntot, nbtot, njtot, ngtot, n_lepton_tot>>

\* njtot = np.array([np.sum(... == 'j' ...) for j in ...])
CountJ ==
    /\ CountCell("njtot", "ngtot")
    /\ njtot' = CountType(types, "j")
    /\ UNCHANGED <<types, ntot, nbtot, ngtot, n_lepton_tot, new_columns>>

\* ngtot = np.array([np.sum(... == 'g' ...) for j in ...])
CountG ==
    /\ CountCell("ngtot", "n_lepton_tot")
    /\ ngtot' = CountType(types, "g")
    /\ UNCHANGED <<types, ntot, nbtot, njtot, n_lepton_tot, new_columns>>

\* n_el_tot = ...; n_pos_tot = ...; n_muneg_tot = ...; n_mupos_tot = ...
\* n_lepton_tot = n_el_tot + n_pos_tot + n_muneg_tot + n_mupos_tot
CountLeptons ==
    /\ CountCell("n_lepton_tot", "Total_j")
    /\ n_lepton_tot' = AddArrays(AddArrays(CountType(types, "e-"), CountType(types, "e+")),
                                 AddArrays(CountType(types, "m-"), CountType(types, "m+")))
    /\ UNCHANGED <<types, ntot, nbtot, njtot, ngtot, new_columns>>

\* features['Total_j'] = njtot; features['Total_g'] = ngtot
\* features['Total_leptons'] = n_lepton_tot
SetTotals ==
    /\ CountCell("Total_j", "features_lim_2")
    /\ new_columns' =
          [c \in DOMAIN new_columns \cup {"Total_j", "Total_g", "Total_leptons"} |->
              CASE c = "Total_j" -> njtot
                [] c = "Total_g" -> ngtot
                [] c = "Total_leptons" -> n_lepton_tot
                [] OTHER -> new_columns[c]]
    /\ UNCHANGED <<types, ntot, nbtot, njtot, ngtot, n_lepton_tot>>

NextCounts ==
    \/ FillTypes
    \/ ReplaceEmpty
    \/ CountProducts
    \/ SetTotalProducts
    \/ CountB
    \/ SetTotalB
    \/ CountJ
    \/ CountG
    \/ CountLeptons
    \/ SetTotals

SpecCounts == InitCounts /\ [][NextCounts]_vars

-----------------------------------------------------------------------------
(* habitable_planets.ipynb, second notebook: the accuracy of a random        *)
(* classifier.                                                               *)

\* range(1000), scaled down
Trials == 2

\* the 5000 of np.random.choice(target,5000), scaled down
DrawSize == 3

\* np.random.choice(a, size): the equally likely outcomes, as the positions
\* of a drawn (with replacement)
ChoicesAlt(a, size) == [1..size -> {1}]
Choices(a, size) == [1..size -> 1..Len(a)]

\* the labels of one outcome
Drawn(a, positions) == [k \in DOMAIN positions |-> a[positions[k]]]

\* metrics.accuracy_score(y_true, y_pred): the number of agreeing entries,
\* to be divided by the length; inconsistent lengths raise ValueError
ConsistentLength(y_true, y_pred) == Len(y_true) = Len(y_pred)
Agreeing(y_true, y_pred) == Cardinality({k \in 1..Len(y_true) : y_true[k] = y_pred[k]})

\* the targets the cell may be run on
Targets == UNION {[1..n -> {0, 1}] : n \in (DrawSize - 1)..(DrawSize + 1)}

InitRandom ==
    /\ rand_pc = "acc=0"
    /\ rand_target \in Targets
    /\ trial = 0
    /\ x_drawn = <<>>
    /\ acc = 0
    /\ accuracies = <<>>
    /\ rand_printed = <<>>
    /\ rand_raised = "none"
    /\ RandOthersIdle

\* acc=0
RandStart ==
    /\ rand_pc = "acc=0"
    /\ rand_raised = "none"
    /\ acc' = 0
    /\ rand_pc' = "for"
    /\ UNCHANGED <<rand_target, trial, x_drawn, accuracies, rand_printed, rand_raised, randOthers>>

\* for i in range(1000): the next value of i, or the end of the loop
RandFor ==
    /\ rand_pc = "for"
    /\ rand_raised = "none"
    /\ IF trial < Trials
       THEN /\ trial' = trial + 1
            /\ rand_pc' = "choice"
       ELSE /\ trial' = trial
            /\ rand_pc' = "print"
    /\ UNCHANGED <<rand_target, x_drawn, acc, accuracies, rand_printed, rand_raised, randOthers>>

\* x = np.random.choice(target,5000)
RandChoice ==
    /\ rand_pc = "choice"
    /\ rand_raised = "none"
    /\ \E positions \in Choices(rand_target, DrawSize) :
          x_drawn' = Drawn(rand_target, positions)
    /\ rand_pc' = "accuracy"
    /\ UNCHANGED <<rand_target, trial, acc, accuracies, rand_printed, rand_raised, randOthers>>

\* acc += metrics.accuracy_score(target,x)
RandAccuracy ==
    /\ rand_pc = "accuracy"
    /\ rand_raised = "none"
    /\ IF ConsistentLength(rand_target, x_drawn)
       THEN /\ acc' = acc + Agreeing(rand_target, x_drawn)
            /\ accuracies' = Append(accuracies, Agreeing(rand_target, x_drawn))
            /\ rand_pc' = "for"
            /\ UNCHANGED rand_raised
       ELSE /\ rand_raised' = "ValueError"
            /\ UNCHANGED <<acc, accuracies, rand_pc>>
    /\ UNCHANGED <<rand_target, trial, x_drawn, rand_printed, randOthers>>

\* print(acc/1000)
RandPrint ==
    /\ rand_pc = "print"
    /\ rand_raised = "none"
    /\ rand_printed' = <<[num |-> acc, den |-> DrawSize * Trials]>>
    /\ rand_pc' = "done"
    /\ UNCHANGED <<rand_target, trial, x_drawn, acc, accuracies, rand_raised, randOthers>>

NextRandom ==
    \/ RandStart
    \/ RandFor
    \/ RandChoice
    \/ RandAccuracy
    \/ RandPrint

SpecRandom == InitRandom /\ [][NextRandom]_vars

-----------------------------------------------------------------------------
(* The notebooks as scripts: the cells that load, derive, clean, fit or      *)
(* report, in file order.  A statement is                                    *)
(*   load     reads or generates the data set                                *)
(*   derive   builds the data set from the data set "from"                   *)
(*   clean    drops or fills rows or values of the data set                  *)
(*   fit      fits models on the data set                                    *)
(*   report   prints or plots the metrics of the models fitted on it         *)
(*   inspect  prints or plots the data set itself                            *)
(* with the exceptions the library raises there on bad input.  A cell is a   *)
(* body of statements run once, or once for each element of a sequence.      *)

St(does, data, from, raises) ==
    [does |-> does, data |-> data, from |-> from, raises |-> raises]

Once(line, body) == [line |-> line, times |-> 1, body |-> body]
For(line, times, body) == [line |-> line, times |-> times, body |-> body]

\* regularization.ipynb
RegularizationCells == <<
    Once(78,  <<St("load", "xb", "", {})>>),
    Once(131, <<St("derive", "new_xb", "xb", {})>>),
    For(172, 13, <<St("fit", "new_xb", "", {"ValueError"})>>),
    Once(180, <<St("report", "new_xb", "", {})>>),
    Once(207, <<St("fit", "new_xb", "", {"ValueError"}),
                St("report", "new_xb", "", {})>>),
    Once(242, <<St("fit", "new_xb", "", {"ValueError"})>>),
    Once(290, <<St("fit", "new_xb", "", {"ValueError"})>>),
    Once(310, <<St("fit", "new_xb", "", {"ValueError"})>>),
    Once(332, <<St("report", "new_xb", "", {})>>),
    Once(371, <<St("fit", "new_xb", "", {"ValueError"})>>),
    For(380, 5, <<St("report", "new_xb", "", {})>>),
    Once(411, <<St("fit", "new_xb", "", {"ValueError"})>>),
    Once(460, <<St("fit", "new_xb", "", {"ValueError"})>>),
    Once(498, <<St("report", "new_xb", "", {})>>) >>

\* boosting_decisions.ipynb
BoostingCells == <<
    Once(89,  <<St("load", "sel_features", "", {"FileNotFoundError"})>>),
    Once(98,  <<St("load", "sel_target", "", {"FileNotFoundError"})>>),
    Once(141, <<St("fit", "sel_features", "", {"ValueError"})>>),
    Once(150, <<St("report", "sel_features", "", {})>>),
    For(201, 3, <<St("fit", "sel_features", "", {"ValueError"}),
                  St("report", "sel_features", "", {})>>),
    For(238, 3, <<St("fit", "sel_features", "", {"ValueError"}),
                  St("report", "sel_features", "", {})>>),
    For(263, 2, <<St("fit", "sel_features", "", {"ValueError"}),
                  St("report", "sel_features", "", {})>>),
    Once(300, <<St("load", "X", "", {}), St("fit", "X", "", {})>>),
    For(343, 5, <<St("report", "X", "", {})>>),
    Once(375, <<St("load", "X", "", {}), St("fit", "X", "", {})>>),
    For(417, 5, <<St("report", "X", "", {})>>),
    Once(479, <<St("derive", "X_train", "sel_features", {})>>),
    Once(501, <<St("fit", "X_train", "", {"ValueError"})>>),
    For(519, 30, <<St("report", "X_train", "", {"IndexError"})>>),
    Once(551, <<St("fit", "X_train", "", {"ValueError"})>>),
    For(561, 30, <<St("report", "X_train", "", {"IndexError"})>>),
    Once(584, <<St("fit", "X_train", "", {"ValueError"})>>),
    For(594, 30, <<St("report", "X_train", "", {"IndexError"})>>),
    For(622, 3, <<St("fit", "X_train", "", {"ValueError"}),
                  St("report", "X_train", "", {"IndexError"})>>),
    Once(684, <<St("fit", "X_train", "", {"ValueError"})>>),
    For(696, 60, <<St("report", "X_train", "", {"IndexError"})>>),
    Once(759, <<St("load", "X", "", {}), St("fit", "X", "", {})>>),
    For(802, 6, <<St("report", "X", "", {})>>),
    For(855, 3, <<St("fit", "X_train", "", {"ValueError"}),
                  St("report", "X_train", "", {"IndexError"})>>) >>

\* habitable_planets.ipynb, first notebook
PlanetsCells == <<
    Once(83,  <<St("load", "df", "", {"FileNotFoundError"})>>),
    Once(135, <<St("derive", "bindf", "df", {})>>),
    Once(208, <<St("derive", "final_features", "bindf", {})>>),
    Once(217, <<St("derive", "targets", "bindf", {})>>),
    For(269, 3, <<St("inspect", "final_features", "", {})>>),
    Once(286, <<St("clean", "final_features", "", {})>>),
    Once(333, <<St("inspect", "final_features", "", {})>>),
    Once(360, <<St("clean", "final_features", "", {})>>),
    Once(371, <<St("clean", "targets", "", {})>>),
    Once(496, <<St("inspect", "final_features", "", {})>>) >>

\* habitable_planets.ipynb, second notebook
ParticleCells == <<
    Once(644,  <<St("load", "features", "", {"FileNotFoundError"})>>),
    Once(671,  <<St("load", "y", "", {"OSError"})>>),
    Once(716,  <<St("derive", "target", "y", {})>>),
    Once(784,  <<St("derive", "features_lim", "features", {})>>),
    Once(839,  <<St("clean", "features_lim", "", {})>>),
    For(923, 1000, <<St("inspect", "target", "", {"ValueError"})>>),
    Once(971,  <<St("fit", "features_lim", "", {"ValueError"})>>),
    Once(989,  <<St("report", "features_lim", "", {})>>),
    Once(1037, <<St("fit", "features_lim", "", {"ValueError"})>>),
    Once(1057, <<St("report", "features_lim", "", {})>>),
    Once(1179, <<St("fit", "features_lim", "", {"ValueError"}),
                 St("report", "features_lim", "", {})>>),
    Once(1237, <<St("fit", "features_lim", "", {"ValueError"})>>),
    Once(1267, <<St("report", "features_lim", "", {})>>),
    Once(1328, <<St("clean", "features", "", {})>>),
    Once(1337, <<St("clean", "features", "", {})>>),
    Once(1394, <<St("derive", "ntot", "features", {})>>),
    Once(1537, <<St("derive", "features_lim_2", "features", {})>>),
    Once(1566, <<St("fit", "features_lim_2", "", {"ValueError"})>>),
    Once(1584, <<St("report", "features_lim_2", "", {})>>),
    Once(1609, <<St("fit", "features_lim_2", "", {"ValueError"})>>),
    Once(1629, <<St("report", "features_lim_2", "", {})>>),
    Once(1661, <<St("derive", "features_add", "features", {})>>),
    Once(1695, <<St("derive", "features_lim_3", "features_add", {})>>),
    Once(1729, <<St("fit", "features_lim_3", "", {"ValueError"})>>),
    Once(1747, <<St("report", "features_lim_3", "", {})>>),
    Once(1781, <<St("fit", "features_lim_3", "", {"ValueError"})>>),
    Once(1838, <<St("fit", "features_add", "", {"ValueError"})>>),
    Once(1856, <<St("report", "features_add", "", {})>>),
    Once(1897, <<St("fit", "features_add", "", {"ValueError"})>>),
    Once(1916, <<St("report", "features_add", "", {})>>) >>

Cells(nb) ==
    CASE nb = "regularization" -> RegularizationCells
      [] nb = "boosting" -> BoostingCells
      [] nb = "planets" -> PlanetsCells
      [] nb = "particle" -> ParticleCells

\* the iterations of a loop that are followed, of the longer loops
LoopCap == 3

\* len() of the sequence a cell iterates over, evaluated when its loop starts
Iterations(nb, c) ==
    IF c > Len(Cells(nb)) THEN 0
    ELSE IF Cells(nb)[c].times > LoopCap THEN LoopCap ELSE Cells(nb)[c].times

\* the except clauses around a statement: the notebooks have no try statement
HandlersAlt(nb, line) == {"except"}
Handlers(nb, line) == {}

\* a for loop takes the next element of its sequence
NextIterationAlt(i) == i
NextIteration(i) == i + 1

\* the statement after the one at (c, i, s): the next of the body, the body
\* again for the next element, or the next cell
AfterAlt(nb, c, i, s, bound) == [cell |-> c + 2, iter |-> 0, step |-> 1]
After(nb, c, i, s, bound) ==
    IF s < Len(Cells(nb)[c].body) THEN [cell |-> c, iter |-> i, step |-> s + 1]
    ELSE IF NextIteration(i) < bound
         THEN [cell |-> c, iter |-> NextIteration(i), step |-> 1]
         ELSE [cell |-> c + 1, iter |-> 0, step |-> 1]

Running == sc_raised = "none" /\ sc_cell \in 1..Len(Cells(sc_notebook))

Statement == Cells(sc_notebook)[sc_cell].body[sc_step]

InitScript ==
    /\ sc_notebook \in Notebooks
    /\ sc_cell = 1
    /\ sc_iter = 0
    /\ sc_step = 1
    /\ sc_bound = Iterations(sc_notebook, 1)
    /\ sc_log = <<>>
    /\ sc_raised = "none"
    /\ ScriptOthersIdle

\* the statement returns: it is logged and the next one is due
Execute ==
    /\ LET next == After(sc_notebook, sc_cell, sc_iter, sc_step, sc_bound)
       IN  /\ sc_cell' = next.cell
           /\ sc_iter' = next.iter
           /\ sc_step' = next.step
           /\ sc_bound' = IF next.cell = sc_cell THEN sc_bound
                          ELSE Iterations(sc_notebook, next.cell)
    /\ sc_log' = Append(sc_log, [does |-> Statement.does, data |-> Statement.data,
                                 line |-> Cells(sc_notebook)[sc_cell].line])
    /\ UNCHANGED <<sc_notebook, sc_raised, scriptOthers>>

\* pd.read_csv, np.genfromtxt, or the generation of synthetic data
LoadData ==
    /\ Running
    /\ Statement.does = "load"
    /\ Execute

\* a selection of columns, a transformation or a split
DeriveData ==
    /\ Running
    /\ Statement.does = "derive"
    /\ Execute

\* dropna, fillna, replace or a cut of outliers
CleanData ==
    /\ Running
    /\ Statement.does = "clean"
    /\ Execute

\* fit, cross_validate, cross_val_predict or learning_curve
FitModels ==
    /\ Running
    /\ Statement.does = "fit"
    /\ Execute

\* a print or plot of scores, coefficients or predictions
ReportMetrics ==
    /\ Running
    /\ Statement.does = "report"
    /\ Execute

\* a print or plot of the data
InspectData ==
    /\ Running
    /\ Statement.does = "inspect"
    /\ Execute


\* the statement raises: without a handler the exception leaves the cell and
\* the run stops there
Raise ==
    /\ Running
    /\ \E e \in Statement.raises :
          IF Handlers(sc_notebook, Cells(sc_notebook)[sc_cell].line) = {}
          THEN /\ sc_raised' = e
               /\ UNCHANGED <<sc_cell, sc_iter, sc_step, sc_bound, sc_log>>
          ELSE /\ sc_log' = Append(sc_log, [does |-> "except", data |-> Statement.data,
                                            line |-> Cells(sc_notebook)[sc_cell].line])
               /\ UNCHANGED <<sc_cell, sc_iter, sc_step, sc_bound, sc_raised>>
    /\ UNCHANGED <<sc_notebook, scriptOthers>>

NextScript ==
    \/ LoadData
    \/ DeriveData
    \/ CleanData
    \/ FitModels
    \/ ReportMetrics
    \/ InspectData
    \/ Raise

SpecScript == InitScript /\ [][NextScript]_vars

\* a started cell runs on: the kernel executes the cells one after another
SpecScriptFair == SpecScript /\ WF_vars(NextScript)

-----------------------------------------------------------------------------
(* Properties of the exoplanet catalog cleaning *)

PlanetsAt(cells) == notebook = "planets" /\ pc \in cells

AfterNewTag ==
    {"select_features", "select_targets", "dropna", "zscore", "subset_targets",
     "reset_features", "reset_targets", "cleaned"}
AfterDropNa ==
    {"zscore", "subset_targets", "reset_features", "reset_targets", "cleaned"}
AfterOutlierCut == {"subset_targets", "reset_features", "reset_targets", "cleaned"}
AfterSubsetTargets == {"reset_features", "reset_targets", "cleaned"}

Sources(frame) == {frame[i].src : i \in 1..Len(frame)}

RECURSIVE SetSum(_, _)
SetSum(S, f) ==
    IF S = {} THEN 0
    ELSE LET a == CHOOSE b \in S : TRUE IN f[a] + SetSum(S \ {a}, f)

\* the rows of the catalog with a value in every feature column
CompleteRows ==
    {r \in 1..Len(catalog) :
        \A k \in 1..Len(FeatureColumns) : catalog[r][FeatureColumns[k]] # NaN}

\* the complete rows with |z| < 5 in column c, from the squared deviations:
\* with d_q = n (x_q - mean), z_r^2 = n d_r^2 / sum_q d_q^2, defined when the
\* sum is > 0
InsideFiveSigma(c) ==
    LET R == CompleteRows
        n == Cardinality(R)
        S == SetSum(R, [q \in R |-> catalog[q][c]])
        d == [q \in R |-> n * catalog[q][c] - S]
        ssd == SetSum(R, [q \in R |-> d[q] * d[q]])
    IN {r \in R : ssd > 0 /\ n * d[r] * d[r] < 25 * ssd}

NotOutliers ==
    InsideFiveSigma("S_MASS") \cap InsideFiveSigma("P_PERIOD")
        \cap InsideFiveSigma("P_DISTANCE")

\* C1: after the cleaning cells (dropna, z-score filter, targets =
\* targets[final_features.index], both reset_index) targets and final_features
\* have the same length and, at every position i, the feature row and the
\* label come from the same row of the catalog, whose values they hold.
C1_RowAligned ==
    PlanetsAt({"cleaned"}) =>
        /\ Len(targets) = Len(final_features)
        /\ \A i \in 1..Len(final_features) :
              LET r == final_features[i].src
              IN /\ targets[i].src = r
                 /\ final_features[i].index = i - 1
                 /\ targets[i].index = i - 1
                 /\ \A k \in 1..Len(FeatureColumns) :
                       Cell(final_features[i], FeatureColumns[k])
                           = catalog[r][FeatureColumns[k]]
                 /\ targets[i].value = bindf[r].P_HABITABLE

\* rows were dropped for a NaN and for an outlier, and rows that follow a
\* dropped row were kept: position and catalog row differ
C1_Witness ==
    /\ PlanetsAt({"cleaned"})
    /\ Cardinality(CompleteRows) < Len(catalog)
    /\ Len(final_features) < Cardinality(CompleteRows)
    /\ \E i \in 1..Len(final_features) : final_features[i].src # i

\* C2: a row is retained iff |z| < 5 (strict) in each of the three feature
\* columns, z taken from the mean and standard deviation of the column over
\* the rows present before the filter; every other row is absent from
\* final_features and its label is absent from targets.
C2_OutliersExcluded ==
    /\ PlanetsAt(AfterOutlierCut) =>
          /\ Sources(final_features) = NotOutliers
          /\ Len(final_features) = Cardinality(NotOutliers)
    /\ PlanetsAt(AfterSubsetTargets) =>
          /\ Sources(targets) = NotOutliers
          /\ Len(targets) = Cardinality(NotOutliers)

\* an outlier was cut, from the features and from the labels, and the other
\* rows were retained
C2_Witness ==
    /\ PlanetsAt({"cleaned"})
    /\ NotOutliers # {}
    /\ \E r \in CompleteRows :
          /\ r \notin NotOutliers
          /\ r \notin Sources(final_features)
          /\ r \notin Sources(targets)

\* C8: bindf.P_HABITABLE is 1 iff the catalog's P_HABITABLE is 1 or 2 and 0
\* otherwise (also for a missing value), and bindf holds the other columns
\* of df unchanged.
C8_BinaryTag ==
    PlanetsAt(AfterNewTag) =>
        /\ Len(bindf) = Len(df)
        /\ \A i \in 1..Len(df) :
              /\ bindf[i].P_HABITABLE
                    = (IF df[i].P_HABITABLE \in {1, 2} THEN 1 ELSE 0)
              /\ bindf[i].index = df[i].index
              /\ \A k \in 1..Len(FeatureColumns) :
                    Cell(bindf[i], FeatureColumns[k]) = Cell(df[i], FeatureColumns[k])

\* the catalog holds the classes 0, 1 and 2, another value and a missing one
C8_Witness ==
    /\ PlanetsAt({"select_features"})
    /\ \A h \in {0, 1, 2, 3, NaN} : \E i \in 1..Len(df) : df[i].P_HABITABLE = h
    /\ \E i \in 1..Len(df) : df[i].P_HABITABLE = 2 /\ bindf[i].P_HABITABLE = 1
    /\ \E i \in 1..Len(df) : isna(df[i].P_HABITABLE) /\ bindf[i].P_HABITABLE = 0

-----------------------------------------------------------------------------
(* Properties of the ParticleID notebook *)

ParticleAt(cells) == notebook = "particle" /\ pc \in cells

AfterAbsTarget == {"select_lim", "fillna", "explore_labels"}

\* C3: after final_features.dropna(axis = 0) exactly the rows of the catalog
\* without a NaN are left, so no row of final_features has a NaN in any
\* column; after features_lim.fillna(0) no cell of features_lim is NaN.
C3_NoMissingValues ==
    /\ PlanetsAt({"zscore"}) =>
          /\ Sources(final_features) = CompleteRows
          /\ Len(final_features) = Cardinality(CompleteRows)
    /\ PlanetsAt(AfterDropNa) =>
          \A i \in 1..Len(final_features) :
              /\ final_features[i].S_MASS # NaN
              /\ final_features[i].P_PERIOD # NaN
              /\ final_features[i].P_DISTANCE # NaN
    /\ ParticleAt({"explore_labels"}) =>
          /\ Len(features_lim) = Len(features_file)
          /\ \A i \in 1..Len(features_lim) :
                features_lim[i].MET # NaN /\ features_lim[i].P10 # NaN

\* dropna removed a row with a NaN and kept the others
C3_Witness ==
    /\ PlanetsAt({"zscore"})
    /\ final_features # <<>>
    /\ \E r \in 1..Len(catalog) : r \notin CompleteRows /\ r \notin Sources(final_features)

\* C9: for a label file with the two classes, target is 1 exactly for the
\* rows labelled 4top and 0 for the others, every entry is 0 or 1, and
\* np.abs(. - 1) applied to target gives back y.
C9_FourTopPositive ==
    (ParticleAt(AfterAbsTarget) /\ Values(labels_file) = {Label4top, LabelTtbar}) =>
        /\ Len(target) = Len(labels_file)
        /\ \A i \in 1..Len(target) :
              /\ target[i] \in {0, 1}
              /\ target[i] = 1 <=> labels_file[i] = Label4top
        /\ AbsMinusOne(target) = y

\* both classes, the first event being a ttbar event
C9_Witness ==
    /\ ParticleAt({"select_lim"})
    /\ Values(labels_file) = {Label4top, LabelTtbar}
    /\ labels_file[1] = LabelTtbar
    /\ target[1] = 0

-----------------------------------------------------------------------------
(* Properties of the regularization notebook *)

IsCoefVector(v, estimator, alpha) ==
    /\ Len(v) = 10
    /\ \A j \in 1..9 : v[j] = [of |-> estimator, alpha |-> alpha, term |-> j]
    /\ v[10] = [of |-> estimator, alpha |-> alpha, term |-> "intercept"]

\* C10: the degree-2 expansion without bias of the 3-column xb has exactly 9
\* columns; every vector hstack([coef_, intercept_]) has 10 entries, the
\* intercept last; the 10 entries fit the 10 bar positions and tick labels
\* '1'..'9', 'Intercept' of both coefficient plots, entry k under label k.
C10_TenCoefficients ==
    /\ reg_raised = "none"
    /\ reg_pc \in {"ridge_1000", "ridge_1", "ridge_no_reg", "bar_chart",
                  "lasso_1000", "lasso_1", "bar_chart_all", "end"} =>
          /\ Len(new_xb) = Len(xb)
          /\ \A i \in 1..Len(new_xb) : Len(new_xb[i]) = 9
    /\ reg_pc \in {"bar_chart", "lasso_1000", "lasso_1", "bar_chart_all", "end"} =>
          /\ IsCoefVector(coef_alpha_1000, "Ridge", "1000")
          /\ IsCoefVector(coef_alpha_1, "Ridge", "1")
          /\ IsCoefVector(coef_no_reg, "Ridge", "1e-7")
    /\ reg_pc \in {"bar_chart_all", "end"} =>
          /\ IsCoefVector(coef_L1000, "Lasso", "1000")
          /\ IsCoefVector(coef_L1, "Lasso", "1")
    /\ reg_pc \in {"lasso_1000", "lasso_1", "bar_chart_all", "end"} =>
          /\ Len(figure.bars) = (IF reg_pc = "end" THEN 5 ELSE 3)
          /\ Len(figure.rand_target) = 10
          /\ figure.rand_target[10] = "Intercept"
          /\ \A s \in 1..Len(figure.bars) :
                /\ Len(figure.bars[s]) = 10
                /\ \A k \in 1..10 :
                      /\ figure.bars[s][k].x = figure.ticks[k]
                      /\ figure.bars[s][k].height.term
                            = (IF k = 10 THEN "intercept" ELSE k)

\* both plots were drawn from five fitted models, and the expansion holds the
\* squares and the cross terms of the three columns
C10_Witness ==
    /\ reg_pc = "end"
    /\ reg_raised = "none"
    /\ Len(figure.bars) = 5
    /\ \E i \in 1..Len(xb) :
          /\ xb[i] = <<1, 2, 2>>
          /\ new_xb[i] = <<1, 2, 2, 1, 2, 2, 4, 4, 4>>

-----------------------------------------------------------------------------
(* Properties of cross_val_predict *)

TestSet(k) == {splits[k].test[p] : p \in 1..Len(splits[k].test)}
TrainSet(k) == {splits[k].train[p] : p \in 1..Len(splits[k].train)}

\* C7: cross_val_predict with a K-fold splitter returns one prediction per
\* row; the test folds partition the rows (every row is in exactly one), and
\* the prediction of a row was made while the row was in the test fold, by a
\* model that was not trained on it.  With at least n_splits rows the call
\* raises nothing.
C7_OutOfFoldPredictions ==
    /\ (splitter = "KFold" /\ n_samples >= n_splits) => cv_raised = "none"
    /\ (splitter = "StratifiedKFold" /\ \E c \in {0, 1} : Count(y_cv, c) >= n_splits)
          => cv_raised = "none"
    /\ cv_pc \in {"fit_and_predict", "returned"} =>
          \A r \in 0..(n_samples - 1) :
              \E k \in 1..n_splits :
                  /\ r \in TestSet(k)
                  /\ \A j \in (1..n_splits) \ {k} : r \notin TestSet(j)
    /\ cv_pc = "returned" =>
          /\ Len(ypred) = n_samples
          /\ \A r \in 0..(n_samples - 1) :
                /\ ypred[r + 1].row = r
                /\ r \notin ypred[r + 1].trained_on
                /\ \E k \in 1..n_splits :
                      r \in TestSet(k) /\ ypred[r + 1].trained_on = TrainSet(k)

\* the call returned for rows that the shuffle moved, one fold holding two rows
C7_Witness ==
    /\ cv_pc = "returned"
    /\ splitter = "KFold"
    /\ n_samples > n_splits
    /\ shuffled[1] # 0
    /\ \E k \in 1..n_splits : Cardinality(TestSet(k)) = 2
    /\ Len(ypred) = n_samples

-----------------------------------------------------------------------------
(* Properties of the staged diagnostics *)

\* C4: in every diagnostic, for each i in 0..n_estimators-1 the expression
\* list(model.staged_predict(X_test))[i] is a valid index: the fitted model
\* yields at least n_estimators staged predictions, and no IndexError occurs.
C4_LoopBoundWithinStages ==
    /\ boost_raised # "IndexError"
    /\ (phase = "plot" /\ boost_raised = "none") =>
          Diagnostics[run].loop <= Len(StagedPredict(boost_model))

\* C15: the curves of a staged diagnostic that drew them: the R2 curve and
\* the Spearman curve each have n_estimators points, the point at x = k
\* (k = 0..n_estimators-1) scores, against y_test, the prediction of the
\* ensemble after k+1 stages, and both curves use the same stage at the same x.
C15_ScoreByIteration ==
    /\ run = 1 => curves = <<>>
    /\ run > 1 =>
          LET n == Diagnostics[run - 1].loop
          IN /\ Len(curves) = 2
             /\ \A c \in 1..2 :
                   /\ Len(curves[c]) = n
                   /\ \A k \in 0..(n - 1) :
                         /\ curves[c][k + 1].x = k
                         /\ curves[c][k + 1].prediction = [stage |-> k + 1]
                         /\ curves[c][k + 1].against = "y_test"
                         /\ curves[c][k + 1].metric =
                                IF c = 1 THEN "r2_score" ELSE "spearmanr"
             /\ \A k \in 1..n :
                   curves[1][k].prediction = curves[2][k].prediction

\* the diagnostic with 60 estimators has drawn its curves
C15_Witness ==
    /\ run = 8
    /\ phase = "model"
    /\ Len(curves[1]) = 60
    /\ curves[2][60].prediction = [stage |-> 60]

-----------------------------------------------------------------------------
(* Properties of a notebook executed twice *)

\* C5: two complete top-to-bottom executions of the same notebook on the same
\* input files give identical results in every cell: each cell of the second
\* execution has the output it had in the first.
C5_RerunIdentical ==
    execution = 2 =>
        \A i \in 1..Len(rr_out) : rr_out[i] = first_out[i]

-----------------------------------------------------------------------------
(* Properties of the calls that go through joblib *)

ParallelCalls == {"learning_curve", "GridSearchCV"}

\* C6 as stated: all execution is single-threaded: no call runs work in
\* parallel workers; at most one task runs at any time, in the notebook's
\* own process.
C6_SingleThreaded ==
    /\ in_workers = 0
    /\ in_process <= 1

\* C6: cells are evaluated synchronously (between calls no task is pending or
\* running; a call returns only when all its tasks are done), and
\* cross_validate and cross_val_predict run their fits one at a time in the
\* notebook's process; learning_curve (n_jobs=-1) runs up to one worker per
\* processor and GridSearchCV (n_jobs=4) up to four workers in parallel.
C6_SynchronousCellsParallelWorkers ==
    /\ jobs_phase = "cell" => (pending = 0 /\ in_process = 0 /\ in_workers = 0)
    /\ in_process = 0 \/ in_workers = 0
    /\ in_process <= 1
    /\ jobs_phase = "call" =>
          LET call == Calls[jobs_call]
          IN /\ call.fn \notin ParallelCalls => in_workers = 0
             /\ call.fn = "learning_curve" => in_workers <= cpu_count
             /\ call.fn = "GridSearchCV" => in_workers <= 4

\* four fits of the grid search run at once in worker processes
C6_Witness ==
    /\ jobs_phase = "call"
    /\ Calls[jobs_call].fn = "GridSearchCV"
    /\ in_workers = 4
    /\ pending > 0

-----------------------------------------------------------------------------
(* Properties of the cells choosing alpha *)

\* the mean over the 10 folds of the error of alpha = 10^e, from the data
MeanError(e) == [num |-> 10 * cv_error[e] + 5, den |-> 10]

\* C11: model.alphas_ is the grid in descending order, which is not the order
\* it was passed in; the score line i of the report loop pairs alphas_[i] with
\* the mean over the 10 folds of row i of mse_path_, and that row holds the
\* errors of alphas_[i].
C11_ScorePairedWithItsAlpha ==
    tune_pc \in {"lasso_loop", "end"} =>
        /\ Len(lasso_cv.alphas_) = 5
        /\ \A i \in 1..4 : lasso_cv.alphas_[i] > lasso_cv.alphas_[i + 1]
        /\ {lasso_cv.alphas_[i] : i \in 1..5} = {LassoGrid[i] : i \in 1..5}
        /\ lasso_cv.alphas_ # LassoGrid
        /\ \A i \in 1..(Len(printed) - 2) :
              /\ printed[i + 2].alpha = lasso_cv.alphas_[i]
              /\ printed[i + 2].score = Mean(lasso_cv.mse_path_[i])
              /\ printed[i + 2].score = MeanError(printed[i + 2].alpha)
        /\ (tune_pc = "end" => Len(printed) = 7)

\* the report is complete and two alphas have different scores
C11_Witness ==
    /\ tune_pc = "end"
    /\ printed[3].alpha = 2
    /\ printed[7].alpha = -2
    /\ printed[3].score # printed[7].score

\* C17: after the manual Ridge cell, however often it was executed, MSE has 13
\* entries, entry j the mean over the 10 folds of the negated test scores of
\* the j-th alpha of logspace(-6,6,13), and the best alpha printed is the
\* grid value at the first position of the minimum of MSE.
C17_ManualRidgeMSE ==
    /\ tune_pc \in {"ridge_done", "lasso_loop", "end"} =>
          /\ Len(MSE) = 13
          /\ \A j \in 1..13 : MSE[j] = MeanError(j - 7)
    /\ tune_pc = "ridge_done" =>
          \E j \in 1..13 :
              /\ printed[Len(printed)] = [best |-> j - 7]
              /\ \A k \in 1..13 : cv_error[k - 7] >= cv_error[j - 7]
              /\ \A k \in 1..(j - 1) : cv_error[k - 7] > cv_error[j - 7]

\* the cell was executed twice and two alphas tie for the minimum
C17_Witness ==
    /\ tune_pc = "ridge_done"
    /\ ridge_runs = 2
    /\ Len(MSE) = 13
    /\ cv_error[-3] = 1
    /\ cv_error[4] = 1
    /\ printed[14] = [best |-> -3]

-----------------------------------------------------------------------------
(* Properties of plot_learning_curve *)

\* C14: plot_learning_curve's n_jobs defaults to None, as its docstring says:
\* the call at line 1179, which passes no n_jobs, computes the learning curve
\* with n_jobs = None, that is with a single job.
C14_DefaultNJobsIsNone ==
    (jobs_phase = "call" /\ Calls[jobs_call].fn = "learning_curve") =>
        /\ Calls[jobs_call].n_jobs = <<>>
        /\ Workers = 1

-----------------------------------------------------------------------------
(* Properties of the toy models *)

\* a = b as fractions
SameFraction(a, b) == a.num * b.den = b.num * a.den

\* C16: for every toy-model stage the printed R2 score is the coefficient of
\* determination of the stage's predictions yp against the training targets
\* y as the reference (y_true = y, y_pred = yp), the orientation of the staged
\* diagnostics; a negative score means the stage predicts worse than the
\* constant mean of y.
C16_ReferenceIsTrainingTarget ==
    \A k \in 1..Len(toy_printed) :
        LET reference == R2Score(toy_y, toy_stages[k])
            shown == IF ToyCells[toy_cell].rounded THEN Round3(reference)
                     ELSE reference
        IN /\ SameFraction(toy_printed[k], shown)
           /\ toy_printed[k].num < 0 =>
                 Len(toy_y) * SquaredDistance(toy_y, toy_stages[k])
                     > ScaledVariation(toy_y)

-----------------------------------------------------------------------------
(* Properties of the new features *)

\* the Type fields of event j of the file that hold the string v
FieldsHolding(j, v) == {i \in 1..13 : event_file[j][i] = [t |-> "str", v |-> v]}

\* the Type fields of event j of the file that are neither missing nor empty
FieldsFilled(j) ==
    {i \in 1..13 : event_file[j][i].t = "str" /\ event_file[j][i].v # ""}

\* C18: for every event, Total_products is the number of the 13 Type columns
\* that are not 0 once NaN and '' were replaced by 0 (13 minus the zeros), it
\* lies in 0..13, and Total_b, Total_j, Total_g are the numbers of the Type
\* columns holding 'b', 'j' and 'g'.
C18_ParticleCounts ==
    count_pc = "features_lim_2" =>
        /\ DOMAIN new_columns =
              {"Total_products", "Total_b", "Total_j", "Total_g", "Total_leptons"}
        /\ \A c \in DOMAIN new_columns : Len(new_columns[c]) = Len(event_file)
        /\ \A j \in 1..Len(event_file) :
              /\ new_columns["Total_products"][j] = Cardinality(FieldsFilled(j))
              /\ new_columns["Total_products"][j] =
                    13 - Cardinality({i \in 1..13 : types[j][i] = Zero})
              /\ new_columns["Total_products"][j] \in 0..13
              /\ new_columns["Total_b"][j] = Cardinality(FieldsHolding(j, "b"))
              /\ new_columns["Total_j"][j] = Cardinality(FieldsHolding(j, "j"))
              /\ new_columns["Total_g"][j] = Cardinality(FieldsHolding(j, "g"))

\* an event with an empty string, a b jet and missing fields
C18_Witness ==
    /\ count_pc = "features_lim_2"
    /\ event_file[1][1] = Str("")
    /\ event_file[1][13] = Str("b")
    /\ new_columns["Total_products"][1] = 2
    /\ new_columns["Total_b"][1] = 1

-----------------------------------------------------------------------------
(* Properties of the random classifier *)

\* the sum, over the equally likely outcomes of one draw, of the number of
\* entries agreeing with the target
AgreeingOverOutcomes ==
    LET outcomes == Choices(rand_target, Len(rand_target))
        agreeing == {p \in outcomes \X (1..Len(rand_target)) :
                        Drawn(rand_target, p[1])[p[2]] = rand_target[p[2]]}
    IN  [num |-> Cardinality(agreeing),
         den |-> Cardinality(outcomes) * Len(rand_target)]

\* p^2 + (1-p)^2 for p the fraction of positive labels
Analytic ==
    LET n == Len(rand_target)
        pos == Cardinality({k \in 1..n : rand_target[k] = 1})
    IN  [num |-> pos * pos + (n - pos) * (n - pos), den |-> n * n]

\* C19: the printed number is the mean over the trials of the accuracy
\* between target and as many labels as target has, drawn with replacement
\* from target; when target has another length than the number drawn the
\* cell raises instead; the expectation of the accuracy of one draw is
\* p^2 + (1-p)^2.
C19_RandomClassifier ==
    /\ rand_raised # "none" => Len(rand_target) # DrawSize /\ rand_printed = <<>>
    /\ rand_pc \in {"accuracy", "print", "done"} /\ Len(rand_target) # DrawSize =>
          rand_raised # "none" \/ (rand_pc = "accuracy" /\ accuracies = <<>>)
    /\ rand_pc = "accuracy" =>
          /\ Len(x_drawn) = DrawSize
          /\ \A k \in 1..DrawSize : \E m \in 1..Len(rand_target) : x_drawn[k] = rand_target[m]
    /\ rand_pc = "done" =>
          /\ Len(accuracies) = Trials
          /\ rand_printed = <<[num |-> SumSeq(accuracies), den |-> DrawSize * Trials]>>
    /\ (Len(rand_target) = DrawSize =>
          AgreeingOverOutcomes.num * Analytic.den = Analytic.num * AgreeingOverOutcomes.den)

\* a mixed target of the length drawn, its estimate printed
C19_Witness ==
    /\ rand_pc = "done"
    /\ Len(rand_target) = DrawSize
    /\ rand_target[1] = 1
    /\ rand_target[2] = 0
    /\ rand_printed # <<>>
    /\ accuracies[1] # accuracies[2]

-----------------------------------------------------------------------------
(* Properties of the notebooks as scripts *)

Finished == sc_raised = "none" /\ sc_cell > Len(Cells(sc_notebook))

Did(k, does) == sc_log[k].does = does

\* the data set of statement k was loaded or derived by an earlier statement
DefinedBefore(k) ==
    \E j \in 1..(k - 1) :
        /\ sc_log[j].data = sc_log[k].data
        /\ sc_log[j].does \in {"load", "derive"}

\* an earlier statement cleaned the data set of statement k
CleanedBefore(k) ==
    \E j \in 1..(k - 1) : Did(j, "clean") /\ sc_log[j].data = sc_log[k].data

\* a fit was followed by a report on the same data set
FitThenReport ==
    \E k, m \in DOMAIN sc_log :
        k < m /\ Did(k, "fit") /\ Did(m, "report") /\ sc_log[k].data = sc_log[m].data

ScriptOrder ==
    /\ sc_log # <<>> => Did(1, "load")
    /\ \A k \in DOMAIN sc_log :
          /\ ~Did(k, "load") /\ ~Did(k, "derive") => DefinedBefore(k)
          /\ Did(k, "report") =>
                \E j \in 1..(k - 1) : Did(j, "fit") /\ sc_log[j].data = sc_log[k].data
          /\ Did(k, "clean") =>
                \A j \in 1..(k - 1) : Did(j, "fit") => sc_log[j].data # sc_log[k].data
          /\ Did(k, "clean") => sc_notebook \in {"planets", "particle"}
          /\ Did(k, "fit") => sc_notebook # "planets"

C13_ErrorsPropagate ==
    [][/\ sc_raised = "none"
       /\ sc_raised' # "none" =>
             /\ sc_raised' \in Statement.raises
             /\ UNCHANGED <<sc_notebook, sc_cell, sc_iter, sc_step, sc_bound, sc_log>>
       /\ sc_log' # sc_log =>
             /\ sc_raised' = "none"
             /\ sc_log'[Len(sc_log')].does # "except"]_vars

\* the staged diagnostic of the boosting notebook raised in its second
\* iteration
C13_Witness ==
    /\ sc_notebook = "boosting"
    /\ sc_raised = "IndexError"
    /\ Cells(sc_notebook)[sc_cell].line = 519
    /\ sc_iter = 1

\* C20: a loop runs once for each element of a sequence whose length is
\* fixed when the loop starts, the body leaves that length alone, each pass
\* through the body takes the next element, and every run ends: with the
\* last cell or with an exception.
C20_LoopsTerminate ==
    /\ [][sc_cell' = sc_cell => sc_bound' = sc_bound]_vars
    /\ [][sc_cell' = sc_cell /\ sc_step' <= sc_step /\ sc_raised' = "none" =>
             sc_iter' = sc_iter + 1]_vars
    /\ [](Running => sc_bound = Iterations(sc_notebook, sc_cell) /\ sc_iter < sc_bound)
    /\ <>(Finished \/ sc_raised # "none")

\* the boosting notebook ran to its end through all its loops
C20_Witness ==
    /\ Finished
    /\ sc_notebook = "boosting"
    /\ Cardinality({k \in DOMAIN sc_log : sc_log[k].line = 622}) = 6

=============================================================================
